---- MODULE Spec2Model ----
(***************************************************************************)
(* A model of the cleanenv configuration reader (revision with the         *)
(* validStructs registry and the encoding.TextUnmarshaler hook).           *)
(*                                                                         *)
(* Go strings are sequences of one-character strings, so that splitting,   *)
(* prefixing and parsing are computed and not assumed.  An optional value  *)
(* (a *string that may be nil, the second result of a Lookup) is a         *)
(* sequence of length 0 (nil / not found) or 1 (the value).                *)
(***************************************************************************)
EXTENDS Integers, Sequences, FiniteSets, TLC

VARIABLES
    cfgType,    \* the Go type of the destination record (fixed per behaviour)
    cfg,        \* the destination record: field name -> value, nested for groups
    environ,    \* the process environment: a function, DOMAIN = the variables set
    pc,         \* "idle", or "run" while readEnvVars is inside its field loop
    update,     \* the update flag of the running / last pass
    metaInfo,   \* the metadata list of the running / last pass
    idx,        \* index into metaInfo of the next field to process
    err,        \* result of the last finished call: Nil or <<error>>
    op,         \* name of the running / last top-level operation
    cfg0,       \* history: cfg when the running / last call was entered
    cfgD,       \* history: cfg after the file was decoded (cfg0 if no file)
    cfg1,       \* history: cfg when the field loop of that call was entered
    log,        \* history: what the running / last call did, in order
    fullRead,   \* history: a full pass has completed successfully on cfg
    out,        \* what the last description call returned or rendered
    fileArg,    \* history: the file and the environment the running / last
                \* ReadConfig was called with, Nil for any other call
    zeroed,     \* history: the fields that held, when the call was entered, or were
                \* given by it, a zero coerced from a variable
    repeated    \* history: the running / last call is a ReadEnv or an UpdateEnv
                \* that was entered right after the same call had returned
                \* without error, with no other call in between

vars == <<cfgType, cfg, environ, pc, update, metaInfo, idx, err, op, cfg0, cfgD, cfg1, log, fullRead,
          out, zeroed, fileArg, repeated>>

----------------------------------------------------------------------------
(* Optional values *)

Nil == <<>>

Some(v) == <<v>>

\* an error value: what went wrong and the text it is about
Err(msg, item) == <<[msg |-> msg, item |-> item]>>

----------------------------------------------------------------------------
(* Bounds of the model *)

\* at most this many variables are set in the environment at the same time
MaxVars == 2

----------------------------------------------------------------------------
(* strings *)

\* strings.HasPrefix at position i: does sep occur in s starting at i
MatchAt(s, sep, i) ==
    /\ i + Len(sep) - 1 <= Len(s)
    /\ \A k \in 1..Len(sep) : s[i + k - 1] = sep[k]

RECURSIVE SplitFrom(_, _, _, _)
\* the pieces of s[i..] split on sep, cur being the piece collected so far
SplitFrom(s, sep, i, cur) ==
    IF i > Len(s) THEN <<cur>>
    ELSE IF MatchAt(s, sep, i)
         THEN <<cur>> \o SplitFrom(s, sep, i + Len(sep), <<>>)
         ELSE SplitFrom(s, sep, i + 1, Append(cur, s[i]))

\* strings.Split: an empty separator explodes the string into its characters
Split(s, sep) ==
    IF sep = <<>> THEN [i \in 1..Len(s) |-> <<s[i]>>]
    ELSE SplitFrom(s, sep, 1, <<>>)

----------------------------------------------------------------------------
(* strconv and time: the parsers parseValue calls *)

Digits == {"0", "1", "2", "3", "4", "5", "6", "7", "8", "9"}

DigitVal(c) ==
    CASE c = "0" -> 0 [] c = "1" -> 1 [] c = "2" -> 2 [] c = "3" -> 3
      [] c = "4" -> 4 [] c = "5" -> 5 [] c = "6" -> 6 [] c = "7" -> 7
      [] c = "8" -> 8 [] c = "9" -> 9 [] OTHER -> 99

RECURSIVE Pow(_, _)
Pow(b, n) == IF n = 0 THEN 1 ELSE b * Pow(b, n - 1)

RECURSIVE DigitsValue(_, _, _)
\* the number written by the digit string s in the given base, acc so far
DigitsValue(s, base, acc) ==
    IF s = <<>> THEN acc
    ELSE DigitsValue(Tail(s), base, acc * base + DigitVal(Head(s)))

\* strconv.ParseUint(s, 0, bits) on sign-free input: the base comes from the
\* prefix ("0" alone is decimal zero, a leading "0" means octal)
ParseUint(s, bits) ==
    LET base == IF Len(s) > 1 /\ s[1] = "0" THEN 8 ELSE 10
        body == IF base = 8 THEN Tail(s) ELSE s
        okSyntax == /\ body /= <<>>
                    /\ \A i \in 1..Len(body) : body[i] \in Digits /\ DigitVal(body[i]) < base
        n    == DigitsValue(body, base, 0)
    IN  IF ~okSyntax THEN [err |-> Err("invalid syntax", <<>>), val |-> 0]
        ELSE IF n > Pow(2, bits) - 1 THEN [err |-> Err("value out of range", <<>>), val |-> 0]
        ELSE [err |-> Nil, val |-> n]

\* strconv.ParseInt(s, 0, bits): optional sign, then as ParseUint, then the
\* range check of the declared bit width
ParseInt(s, bits) ==
    LET neg  == s /= <<>> /\ s[1] = "-"
        body == IF s /= <<>> /\ s[1] \in {"+", "-"} THEN Tail(s) ELSE s
        u    == ParseUint(body, bits)
        lim  == Pow(2, bits - 1)
    IN  IF u.err /= Nil THEN [err |-> u.err, val |-> 0]
        ELSE IF (~neg /\ u.val > lim - 1) \/ (neg /\ u.val > lim)
             THEN [err |-> Err("value out of range", <<>>), val |-> 0]
        ELSE [err |-> Nil, val |-> IF neg THEN 0 - u.val ELSE u.val]

\* time.ParseDuration, on a whole number of seconds or minutes: "0", or
\* digits and the unit "s" or "m"; the duration is counted in seconds
ParseDuration(s) ==
    LET body == SubSeq(s, 1, Len(s) - 1)
        ok   == /\ Len(s) >= 2 /\ s[Len(s)] \in {"s", "m"}
                /\ \A i \in 1..Len(body) : body[i] \in Digits
    IN  IF s = <<"0">> THEN [err |-> Nil, val |-> 0]
        ELSE IF ~ok THEN [err |-> Err("invalid duration", s), val |-> 0]
        ELSE [err |-> Nil,
              val |-> DigitsValue(body, 10, 0) * (IF s[Len(s)] = "m" THEN 60 ELSE 1)]

\* strconv.ParseBool: the accepted tokens, nothing else
ParseBool(s) ==
    IF s \in {<<"1">>, <<"t">>, <<"T">>, <<"t","r","u","e">>, <<"T","R","U","E">>, <<"T","r","u","e">>}
    THEN [err |-> Nil, val |-> TRUE]
    ELSE IF s \in {<<"0">>, <<"f">>, <<"F">>, <<"f","a","l","s","e">>, <<"F","A","L","S","E">>, <<"F","a","l","s","e">>}
    THEN [err |-> Nil, val |-> FALSE]
    ELSE [err |-> Err("invalid syntax", <<>>), val |-> FALSE]

\* time.RFC3339, reduced to the shape "digit T digit": in a layout a digit
\* stands for a digit of the value and any other character for itself
RFC3339 == <<"2", "T", "1">>

\* the zero time.Time
TimeZero == <<>>

\* time.Parse(layout, value): the value must have the layout's shape; the
\* instant is the sequence of digits read at the layout's digit positions
timeParse(layout, value) ==
    LET ok == /\ Len(value) = Len(layout)
              /\ \A i \in 1..Len(layout) :
                    IF layout[i] \in Digits THEN value[i] \in Digits
                    ELSE value[i] = layout[i]
    IN  IF ok THEN [err |-> Nil,
                    val |-> SelectSeq(value, LAMBDA c : c \in Digits)]
        ELSE [err |-> Err("cannot parse time", <<>>), val |-> TimeZero]

\* url.Parse: fails with "missing protocol scheme" on a string that starts
\* with a colon; a url.URL is represented by the text it was parsed from,
\* so the empty string parses to the zero URL
urlParse(value) ==
    IF value /= <<>> /\ value[1] = ":"
    THEN [err |-> Err("missing protocol scheme", <<>>), val |-> <<>>]
    ELSE [err |-> Nil, val |-> value]

\* the name under which time.UTC is loaded
UTC == <<"U", "T", "C">>

\* time.LoadLocation: "" and "UTC" give UTC; no time zone database is
\* installed, so every other name is unknown.  A *time.Location is Nil or
\* Some(name).
loadLocation(value) ==
    IF value \in {<<>>, UTC}
    THEN [err |-> Nil, val |-> Some(UTC)]
    ELSE [err |-> Err("unknown time zone", <<>>), val |-> Nil]

IsSpace(c) == c \in {" ", "\t", "\n", "\r"}

RECURSIVE TrimLeft(_)
TrimLeft(s) == IF s /= <<>> /\ IsSpace(Head(s)) THEN TrimLeft(Tail(s)) ELSE s

RECURSIVE TrimRight(_)
TrimRight(s) ==
    IF s /= <<>> /\ IsSpace(s[Len(s)]) THEN TrimRight(SubSeq(s, 1, Len(s) - 1)) ELSE s

\* strings.TrimSpace
TrimSpace(s) == TrimRight(TrimLeft(s))

----------------------------------------------------------------------------
(* Go types and values *)

\* a reflect.Type: its Kind, its name, its bit width, the interfaces it (or
\* a pointer to it) implements, and its parts.  updater is "" when the type
\* has no Update method, and else names what its Update method does.
Ty(kind, name, bits) ==
    [kind |-> kind, name |-> name, bits |-> bits,
     text |-> FALSE, setter |-> FALSE, updater |-> "",
     fields |-> <<>>, elem |-> Nil, key |-> Nil]

TString == Ty("string", "string", 0)

TBool == Ty("bool", "bool", 0)

TInt8 == Ty("int", "int8", 8)

TUint8 == Ty("uint", "uint8", 8)

TDuration == Ty("int", "time.Duration", 64)

TFunc == Ty("func", "func()", 0)

TChan == Ty("chan", "chan int", 0)

\* time.Time is a struct and implements encoding.TextUnmarshaler
TTime == [Ty("struct", "time.Time", 0) EXCEPT !.text = TRUE]

TURL == Ty("struct", "url.URL", 0)

TLocation == Ty("ptr", "*time.Location", 0)

SliceOf(e) == [Ty("slice", "[]", 0) EXCEPT !.elem = Some(e)]

MapOf(k, e) == [Ty("map", "map", 0) EXCEPT !.key = Some(k), !.elem = Some(e)]

StructOf(name, fields) == [Ty("struct", name, 0) EXCEPT !.fields = fields]

\* a reflect.StructField: tag maps each tag key that is present to its text
Field(name, type, exported, tag) ==
    [name |-> name, type |-> type, exported |-> exported, tag |-> tag]

\* a nil slice, and the slice made of the given elements
NilSlice == [nil |-> TRUE, elems |-> <<>>]

MakeSlice(elems) == [nil |-> FALSE, elems |-> elems]

\* a nil map, and the map with the given key-value function
NilMap == [nil |-> TRUE, kv |-> <<>>]

MakeMap(kv) == [nil |-> FALSE, kv |-> kv]

RECURSIVE ZeroOf(_)
\* reflect.Zero: the zero value of a type
ZeroOf(t) ==
    CASE t.kind = "string" -> <<>>
      [] t.kind = "bool"   -> FALSE
      [] t.kind \in {"int", "uint"} -> 0
      [] t.kind = "slice"  -> NilSlice
      [] t.kind = "map"    -> NilMap
      [] t.kind = "struct" /\ t.name = "time.Time" -> TimeZero
      [] t.kind = "struct" /\ t.name = "url.URL" -> <<>>
      [] t.kind = "struct" -> [n \in {t.fields[i].name : i \in 1..Len(t.fields)} |->
                                 LET f == CHOOSE g \in {t.fields[i] : i \in 1..Len(t.fields)} : g.name = n
                                 IN  ZeroOf(f.type)]
      [] OTHER -> Nil

RECURSIVE GetAt(_, _)
\* the value of the field at a path of field names
GetAt(v, path) == IF path = <<>> THEN v ELSE GetAt(v[Head(path)], Tail(path))

RECURSIVE SetAt(_, _, _)
\* v with the field at the path replaced by x
SetAt(v, path, x) ==
    IF path = <<>> THEN x
    ELSE [v EXCEPT ![Head(path)] = SetAt(v[Head(path)], Tail(path), x)]

----------------------------------------------------------------------------
(* Coercion: parseValue, parseSlice, parseMap *)

DefaultSeparator == <<",">>

TagEnv == "env"

TagEnvLayout == "env-layout"

TagEnvDefault == "env-default"

TagEnvSeparator == "env-separator"

TagEnvDescription == "env-description"

TagEnvUpd == "env-upd"

TagEnvRequired == "env-required"

TagEnvPrefix == "env-prefix"

\* the keys of the validStructs registry
validStructs == {"time.Time", "url.URL", "*time.Location"}

\* the parseFunc registered for a type of validStructs
structParser(t, value, layout) ==
    CASE t.name = "time.Time" ->
            timeParse(IF layout /= Nil THEN layout[1] ELSE RFC3339, value)
      [] t.name = "url.URL" -> urlParse(value)
      [] t.name = "*time.Location" -> loadLocation(value)

\* what the example setter MyField.SetValue prepends ("my field is: ")
MyFieldPrefix == <<"m", "y", ":">>

\* Setter.SetValue of a user type, as MyField.SetValue does it: an empty
\* string is refused, anything else is stored behind the prefix
SetValue(t, value) ==
    IF value = <<>> THEN [err |-> Err("field value can't be empty", <<>>), val |-> <<>>]
    ELSE [err |-> Nil, val |-> MyFieldPrefix \o value]

\* what the model's user type stores in front of the text it unmarshals
TextPrefix == <<"t", "x", ":">>

\* encoding.TextUnmarshaler.UnmarshalText: time.Time reads RFC 3339 only;
\* a user type stores the text behind its own prefix
UnmarshalText(t, value) ==
    IF t.name = "time.Time" THEN timeParse(RFC3339, value)
    ELSE [err |-> Nil, val |-> TextPrefix \o value]

RECURSIVE parseValue(_, _, _, _, _)
RECURSIVE parseSlice(_, _, _, _)
RECURSIVE parseMap(_, _, _, _)
RECURSIVE parseElems(_, _, _, _, _, _)
RECURSIVE parsePairs(_, _, _, _, _, _)

\* a dispatch that asks for the interfaces before the registry
parserLevelInterfacesFirst(t) ==
    IF t.text THEN "TextUnmarshaler"
    ELSE IF t.setter THEN "Setter"
    ELSE IF t.name \in validStructs THEN "validStructs"
    ELSE "kind"

\* the dispatch at the head of parseValue: the validStructs registry first
\* (a standard struct such as time.Time also implements TextUnmarshaler),
\* then encoding.TextUnmarshaler, then Setter, then the switch on the Kind
parserLevel(t) ==
    IF t.name \in validStructs THEN "validStructs"
    ELSE IF t.text THEN "TextUnmarshaler"
    ELSE IF t.setter THEN "Setter"
    ELSE "kind"

\* a parseValue whose switch accepts every kind it has no case for
parseValueAcceptsAll(t, cur, value, sep, layout) ==
    IF parserLevel(t) = "validStructs" THEN
        LET r == structParser(t, value, layout)
        IN  [err |-> r.err, val |-> IF r.err = Nil THEN r.val ELSE cur, by |-> "validStructs"]
    ELSE IF parserLevel(t) = "TextUnmarshaler" THEN
        LET r == UnmarshalText(t, value)
        IN  [err |-> r.err, val |-> IF r.err = Nil THEN r.val ELSE cur, by |-> "TextUnmarshaler"]
    ELSE IF parserLevel(t) = "Setter" THEN
        LET r == SetValue(t, value)
        IN  [err |-> r.err, val |-> IF r.err = Nil THEN r.val ELSE cur, by |-> "Setter"]
    ELSE CASE t.kind = "string" -> [err |-> Nil, val |-> value, by |-> "kind"]
      [] t.kind = "bool" ->
            LET r == ParseBool(value)
            IN  [err |-> r.err, val |-> IF r.err = Nil THEN r.val ELSE cur, by |-> "kind"]
      [] t.kind = "int" ->
            LET r == IF t = TDuration THEN ParseDuration(value) ELSE ParseInt(value, t.bits)
            IN  [err |-> r.err, val |-> IF r.err = Nil THEN r.val ELSE cur, by |-> "kind"]
      [] t.kind = "uint" ->
            LET r == ParseUint(value, t.bits)
            IN  [err |-> r.err, val |-> IF r.err = Nil THEN r.val ELSE cur, by |-> "kind"]
      [] t.kind = "slice" ->
            LET r == parseSlice(t, value, sep, layout)
            IN  [err |-> r.err, val |-> IF r.err = Nil THEN r.val ELSE cur, by |-> "kind"]
      [] t.kind = "map" ->
            LET r == parseMap(t, value, sep, layout)
            IN  [err |-> r.err, val |-> IF r.err = Nil THEN r.val ELSE cur, by |-> "kind"]
      [] OTHER -> [err |-> Nil, val |-> cur, by |-> "kind"]

\* a parseValue that stores what the parser returned also when it failed
parseValueStoresOnError(t, cur, value, sep, layout) ==
    IF parserLevel(t) = "validStructs" THEN
        LET r == structParser(t, value, layout)
        IN  [err |-> r.err, val |-> IF r.err = Nil THEN r.val ELSE cur, by |-> "validStructs"]
    ELSE IF parserLevel(t) = "TextUnmarshaler" THEN
        LET r == UnmarshalText(t, value)
        IN  [err |-> r.err, val |-> IF r.err = Nil THEN r.val ELSE cur, by |-> "TextUnmarshaler"]
    ELSE IF parserLevel(t) = "Setter" THEN
        LET r == SetValue(t, value)
        IN  [err |-> r.err, val |-> IF r.err = Nil THEN r.val ELSE cur, by |-> "Setter"]
    ELSE CASE t.kind = "string" -> [err |-> Nil, val |-> value, by |-> "kind"]
      [] t.kind = "bool" ->
            LET r == ParseBool(value)
            IN  [err |-> r.err, val |-> r.val, by |-> "kind"]
      [] t.kind = "int" ->
            LET r == IF t = TDuration THEN ParseDuration(value) ELSE ParseInt(value, t.bits)
            IN  [err |-> r.err, val |-> r.val, by |-> "kind"]
      [] t.kind = "uint" ->
            LET r == ParseUint(value, t.bits)
            IN  [err |-> r.err, val |-> r.val, by |-> "kind"]
      [] t.kind = "slice" ->
            LET r == parseSlice(t, value, sep, layout)
            IN  [err |-> r.err, val |-> r.val, by |-> "kind"]
      [] t.kind = "map" ->
            LET r == parseMap(t, value, sep, layout)
            IN  [err |-> r.err, val |-> r.val, by |-> "kind"]
      [] OTHER -> [err |-> Err("unsupported type", <<>>), val |-> cur, by |-> "kind"]

\* a parseValue that appends the parsed elements to the sequence the field
\* holds
parseValueAppends(t, cur, value, sep, layout) ==
    IF parserLevel(t) = "validStructs" THEN
        LET r == structParser(t, value, layout)
        IN  [err |-> r.err, val |-> IF r.err = Nil THEN r.val ELSE cur, by |-> "validStructs"]
    ELSE IF parserLevel(t) = "TextUnmarshaler" THEN
        LET r == UnmarshalText(t, value)
        IN  [err |-> r.err, val |-> IF r.err = Nil THEN r.val ELSE cur, by |-> "TextUnmarshaler"]
    ELSE IF parserLevel(t) = "Setter" THEN
        LET r == SetValue(t, value)
        IN  [err |-> r.err, val |-> IF r.err = Nil THEN r.val ELSE cur, by |-> "Setter"]
    ELSE CASE t.kind = "string" -> [err |-> Nil, val |-> value, by |-> "kind"]
      [] t.kind = "bool" ->
            LET r == ParseBool(value)
            IN  [err |-> r.err, val |-> IF r.err = Nil THEN r.val ELSE cur, by |-> "kind"]
      [] t.kind = "int" ->
            LET r == IF t = TDuration THEN ParseDuration(value) ELSE ParseInt(value, t.bits)
            IN  [err |-> r.err, val |-> IF r.err = Nil THEN r.val ELSE cur, by |-> "kind"]
      [] t.kind = "uint" ->
            LET r == ParseUint(value, t.bits)
            IN  [err |-> r.err, val |-> IF r.err = Nil THEN r.val ELSE cur, by |-> "kind"]
      [] t.kind = "slice" ->
            LET r == parseSlice(t, value, sep, layout)
            IN  [err |-> r.err,
                 val |-> IF r.err = Nil THEN MakeSlice(cur.elems \o r.val.elems) ELSE cur,
                 by |-> "kind"]
      [] t.kind = "map" ->
            LET r == parseMap(t, value, sep, layout)
            IN  [err |-> r.err, val |-> IF r.err = Nil THEN r.val ELSE cur, by |-> "kind"]
      [] OTHER -> [err |-> Err("unsupported type", <<>>), val |-> cur, by |-> "kind"]

\* parseValue(field, value, sep, layout): cur is the field's current value,
\* which a failed parse leaves in place.  "by" names the branch that handled
\* the value.  Every field that reaches parseValue is settable, hence
\* CanInterface() holds.
parseValue(t, cur, value, sep, layout) ==
    IF parserLevel(t) = "validStructs" THEN
        LET r == structParser(t, value, layout)
        IN  [err |-> r.err, val |-> IF r.err = Nil THEN r.val ELSE cur, by |-> "validStructs"]
    ELSE IF parserLevel(t) = "TextUnmarshaler" THEN
        LET r == UnmarshalText(t, value)
        IN  [err |-> r.err, val |-> IF r.err = Nil THEN r.val ELSE cur, by |-> "TextUnmarshaler"]
    ELSE IF parserLevel(t) = "Setter" THEN
        LET r == SetValue(t, value)
        IN  [err |-> r.err, val |-> IF r.err = Nil THEN r.val ELSE cur, by |-> "Setter"]
    ELSE CASE t.kind = "string" -> [err |-> Nil, val |-> value, by |-> "kind"]
      [] t.kind = "bool" ->
            LET r == ParseBool(value)
            IN  [err |-> r.err, val |-> IF r.err = Nil THEN r.val ELSE cur, by |-> "kind"]
      [] t.kind = "int" ->
            LET r == IF t = TDuration THEN ParseDuration(value) ELSE ParseInt(value, t.bits)
            IN  [err |-> r.err, val |-> IF r.err = Nil THEN r.val ELSE cur, by |-> "kind"]
      [] t.kind = "uint" ->
            LET r == ParseUint(value, t.bits)
            IN  [err |-> r.err, val |-> IF r.err = Nil THEN r.val ELSE cur, by |-> "kind"]
      [] t.kind = "slice" ->
            LET r == parseSlice(t, value, sep, layout)
            IN  [err |-> r.err, val |-> IF r.err = Nil THEN r.val ELSE cur, by |-> "kind"]
      [] t.kind = "map" ->
            LET r == parseMap(t, value, sep, layout)
            IN  [err |-> r.err, val |-> IF r.err = Nil THEN r.val ELSE cur, by |-> "kind"]
      [] OTHER -> [err |-> Err("unsupported type", <<>>), val |-> cur, by |-> "kind"]

\* the loop of parseSlice: values[i..] parsed into elements after acc; the
\* first failing element ends it
parseElems(t, values, i, acc, sep, layout) ==
    IF i > Len(values) THEN [err |-> Nil, val |-> MakeSlice(acc)]
    ELSE LET e == t.elem[1]
             r == parseValue(e, ZeroOf(e), values[i], sep, layout)
         IN  IF r.err /= Nil THEN [err |-> r.err, val |-> NilSlice]
             ELSE parseElems(t, values, i + 1, Append(acc, r.val), sep, layout)

\* a parseSlice that leaves the slice nil when the value is blank
parseSliceNilWhenBlank(t, value, sep, layout) ==
    IF t.elem[1].kind = "uint" /\ t.elem[1].bits = 8
    THEN [err |-> Nil, val |-> MakeSlice(value)]
    ELSE IF Len(TrimSpace(value)) /= 0
    THEN parseElems(t, Split(value, sep), 1, <<>>, sep, layout)
    ELSE [err |-> Nil, val |-> NilSlice]

\* a parseSlice that treats bytes like any other element
parseSliceSplitBytes(t, value, sep, layout) ==
    IF Len(TrimSpace(value)) /= 0
    THEN parseElems(t, Split(value, sep), 1, <<>>, sep, layout)
    ELSE [err |-> Nil, val |-> MakeSlice(<<>>)]

\* parseSlice(valueType, value, sep, layout)
parseSlice(t, value, sep, layout) ==
    IF t.elem[1].kind = "uint" /\ t.elem[1].bits = 8
    THEN [err |-> Nil, val |-> MakeSlice(value)]
    ELSE IF Len(TrimSpace(value)) /= 0
    THEN parseElems(t, Split(value, sep), 1, <<>>, sep, layout)
    ELSE [err |-> Nil, val |-> MakeSlice(<<>>)]

RECURSIVE parsePairsSkipBad(_, _, _, _, _, _)
\* a loop that passes over a pair without ":" instead of failing
parsePairsSkipBad(t, pairs, i, kv, sep, layout) ==
    IF i > Len(pairs) THEN [err |-> Nil, val |-> MakeMap(kv)]
    ELSE LET pair == pairs[i]
             cut  == IF \E j \in 1..Len(pair) : pair[j] = ":"
                     THEN CHOOSE j \in 1..Len(pair) :
                            pair[j] = ":" /\ \A h \in 1..(j - 1) : pair[h] /= ":"
                     ELSE 0
             kt   == t.key[1]
             et   == t.elem[1]
         IN  IF cut = 0
             THEN parsePairsSkipBad(t, pairs, i + 1, kv, sep, layout)
             ELSE LET k == parseValue(kt, ZeroOf(kt), SubSeq(pair, 1, cut - 1), sep, layout)
                  IN  IF k.err /= Nil THEN [err |-> k.err, val |-> NilMap]
                      ELSE LET v == parseValue(et, ZeroOf(et), SubSeq(pair, cut + 1, Len(pair)), sep, layout)
                           IN  IF v.err /= Nil THEN [err |-> v.err, val |-> NilMap]
                               ELSE parsePairsSkipBad(t, pairs, i + 1, (k.val :> v.val) @@ kv, sep, layout)

\* the loop of parseMap: pairs[i..] added to the map kv
parsePairs(t, pairs, i, kv, sep, layout) ==
    IF i > Len(pairs) THEN [err |-> Nil, val |-> MakeMap(kv)]
    ELSE LET pair == pairs[i]
             cut  == IF \E j \in 1..Len(pair) : pair[j] = ":"
                     THEN CHOOSE j \in 1..Len(pair) :
                            pair[j] = ":" /\ \A h \in 1..(j - 1) : pair[h] /= ":"
                     ELSE 0
             kt   == t.key[1]
             et   == t.elem[1]
         IN  IF cut = 0
             THEN [err |-> Err("invalid map item", pair), val |-> NilMap]
             ELSE LET k == parseValue(kt, ZeroOf(kt), SubSeq(pair, 1, cut - 1), sep, layout)
                  IN  IF k.err /= Nil THEN [err |-> k.err, val |-> NilMap]
                      ELSE LET v == parseValue(et, ZeroOf(et), SubSeq(pair, cut + 1, Len(pair)), sep, layout)
                           IN  IF v.err /= Nil THEN [err |-> v.err, val |-> NilMap]
                               ELSE parsePairs(t, pairs, i + 1, (k.val :> v.val) @@ kv, sep, layout)

parseMap(t, value, sep, layout) ==
    IF Len(TrimSpace(value)) /= 0
    THEN parsePairs(t, Split(value, sep), 1, <<>>, sep, layout)
    ELSE [err |-> Nil, val |-> MakeMap(<<>>)]

----------------------------------------------------------------------------
(* Schema walk: readStructMetadata *)

\* reflect.StructTag.Lookup
TagLookup(tag, key) == IF key \in DOMAIN tag THEN Some(tag[key]) ELSE Nil

\* the structMeta built for field fType of the struct node s
newStructMeta(s, fType) ==
    LET isStruct == fType.type.kind = "struct"
        layout == IF isStruct THEN TagLookup(fType.tag, TagEnvLayout) ELSE Nil
        sepTag == TagLookup(fType.tag, TagEnvSeparator)
        envs   == TagLookup(fType.tag, TagEnv)
        split  == IF envs /= Nil /\ Len(envs[1]) /= 0
                  THEN Split(envs[1], DefaultSeparator) ELSE <<>>
        descr  == TagLookup(fType.tag, TagEnvDescription)
    IN  [envList     |-> IF s.Prefix /= <<>>
                         THEN [i \in 1..Len(split) |-> s.Prefix \o split[i]]
                         ELSE split,
         fieldName   |-> fType.name,
         fieldValue  |-> Append(s.Val, fType.name),
         fieldType   |-> fType.type,
         defValue    |-> TagLookup(fType.tag, TagEnvDefault),
         layout      |-> layout,
         separator   |-> IF sepTag /= Nil THEN sepTag[1] ELSE DefaultSeparator,
         description |-> IF descr /= Nil THEN descr[1] ELSE <<>>,
         updatable   |-> TagEnvUpd \in DOMAIN fType.tag,
         required    |-> TagEnvRequired \in DOMAIN fType.tag]

\* a cfgNode that forgets the prefix of the node it is nested in
newCfgNodeOwnPrefix(s, fType) ==
    LET prefix == TagLookup(fType.tag, TagEnvPrefix)
    IN  [Val    |-> Append(s.Val, fType.name),
         Type   |-> fType.type,
         Prefix |-> IF prefix /= Nil THEN prefix[1] ELSE <<>>]

\* the cfgNode pushed for the nested struct field fType of node s
newCfgNode(s, fType) ==
    LET prefix == TagLookup(fType.tag, TagEnvPrefix)
    IN  [Val    |-> Append(s.Val, fType.name),
         Type   |-> fType.type,
         Prefix |-> s.Prefix \o (IF prefix /= Nil THEN prefix[1] ELSE <<>>)]

RECURSIVE readFieldsAll(_, _, _, _)
\* a loop that does not look at whether a field is exported
readFieldsAll(s, i, cfgStack, metas) ==
    IF i > Len(s.Type.fields) THEN [cfgStack |-> cfgStack, metas |-> metas]
    ELSE LET fType == s.Type.fields[i]
             isStruct == fType.type.kind = "struct"
         IN  IF isStruct /\ fType.type.name \notin validStructs
             THEN readFieldsAll(s, i + 1, Append(cfgStack, newCfgNode(s, fType)), metas)
             ELSE readFieldsAll(s, i + 1, cfgStack, Append(metas, newStructMeta(s, fType)))

RECURSIVE readFields(_, _, _, _)
\* the loop over the fields of one struct node s, from field idx on: a
\* nested struct that is not a validStructs type is pushed on the stack, an
\* unexported field is passed over, every other field yields a structMeta
readFields(s, i, cfgStack, metas) ==
    IF i > Len(s.Type.fields) THEN [cfgStack |-> cfgStack, metas |-> metas]
    ELSE LET fType == s.Type.fields[i]
             isStruct == fType.type.kind = "struct"
         IN  IF isStruct /\ ~fType.exported
             THEN readFields(s, i + 1, cfgStack, metas)
             ELSE IF isStruct /\ fType.type.name \notin validStructs
             THEN readFields(s, i + 1, Append(cfgStack, newCfgNode(s, fType)), metas)
             ELSE IF ~fType.exported
             THEN readFields(s, i + 1, cfgStack, metas)
             ELSE readFields(s, i + 1, cfgStack, Append(metas, newStructMeta(s, fType)))

RECURSIVE walkStackAnyKind(_, _, _)
\* an outer loop that takes a value that is no struct for one without fields
walkStackAnyKind(i, cfgStack, metas) ==
    IF i > Len(cfgStack) THEN [err |-> Nil, metas |-> metas]
    ELSE LET r == readFields(cfgStack[i], 1, cfgStack, metas)
         IN  walkStackAnyKind(i + 1, r.cfgStack, r.metas)

RECURSIVE walkStackDepthFirst(_, _, _)
\* an outer loop that visits the groups of a struct before the groups that
\* were found earlier
walkStackDepthFirst(i, cfgStack, metas) ==
    IF i > Len(cfgStack) THEN [err |-> Nil, metas |-> metas]
    ELSE IF cfgStack[i].Type.kind /= "struct"
    THEN [err |-> Err("wrong type", <<>>), metas |-> <<>>]
    ELSE LET r == readFields(cfgStack[i], 1, <<>>, metas)
         IN  walkStackDepthFirst(i + 1,
                                 SubSeq(cfgStack, 1, i) \o r.cfgStack
                                     \o SubSeq(cfgStack, i + 1, Len(cfgStack)),
                                 r.metas)

RECURSIVE walkStack(_, _, _)
\* the outer loop of readStructMetadata over the growing cfgStack
walkStack(i, cfgStack, metas) ==
    IF i > Len(cfgStack) THEN [err |-> Nil, metas |-> metas]
    ELSE IF cfgStack[i].Type.kind /= "struct"
    THEN [err |-> Err("wrong type", <<>>), metas |-> <<>>]
    ELSE LET r == readFields(cfgStack[i], 1, cfgStack, metas)
         IN  walkStack(i + 1, r.cfgStack, r.metas)

\* readStructMetadata(cfgRoot): a node's Val is the path of the struct it
\* points to inside the root record
readStructMetadata(rootType) ==
    walkStack(1, <<[Val |-> <<>>, Type |-> rootType, Prefix |-> <<>>]>>, <<>>)

----------------------------------------------------------------------------
(* Population: readEnvVars *)

\* a lookup that takes a variable set to the empty string for unset
LookupEnvNonEmpty(env, name) ==
    IF name \in DOMAIN env /\ env[name] /= <<>> THEN Some(env[name]) ELSE Nil

\* os.LookupEnv
LookupEnv(env, name) == IF name \in DOMAIN env THEN Some(env[name]) ELSE Nil

RECURSIVE lookupEnvListLast(_, _, _)
\* a lookup loop without its break: the last name that is set wins
lookupEnvListLast(env, envList, i) ==
    IF i > Len(envList) THEN Nil
    ELSE LET rest == lookupEnvListLast(env, envList, i + 1)
         IN  IF rest /= Nil THEN rest ELSE LookupEnv(env, envList[i])

RECURSIVE lookupEnvList(_, _, _)
\* the lookup loop of readEnvVars: the value of the first name of envList,
\* from position i on, that is set; the loop breaks there
lookupEnvList(env, envList, i) ==
    IF i > Len(envList) THEN Nil
    ELSE IF LookupEnv(env, envList[i]) /= Nil THEN LookupEnv(env, envList[i])
    ELSE lookupEnvList(env, envList, i + 1)

\* a zero check that always answers "zero"
isFieldValueZeroAlways(c, meta) == TRUE

\* structMeta.isFieldValueZero, on the record c
isFieldValueZero(c, meta) == GetAt(c, meta.fieldValue) = ZeroOf(meta.fieldType)

\* a field error that names no variable
FieldErrNoEnv(msg, meta, envName, inner) ==
    <<[msg |-> msg, field |-> meta.fieldName, env |-> <<>>, inner |-> inner]>>

\* the error readEnvVars returns for a field
FieldErr(msg, meta, envName, inner) ==
    <<[msg |-> msg, field |-> meta.fieldName, env |-> envName, inner |-> inner]>>

\* an entry of the log: what was done to which field (path), with which raw
\* value (an option) taken from where, by which branch of parseValue
Event(what, path, raw, src, by) ==
    [what |-> what, field |-> path, raw |-> raw, src |-> src, by |-> by]

\* a loop that passes over no field
skipFieldNever(upd, meta) == FALSE

\* "update only updatable fields": the test that makes the loop pass over a
\* field
skipField(upd, meta) == upd /\ ~meta.updatable

\* a required check that spares a field with a default
requiredFailsNoDefault(found, meta, zero) ==
    found = Nil /\ meta.required /\ zero /\ meta.defValue = Nil

\* a required check that never fails
requiredFailsNever(found, meta, zero) == FALSE

\* the required check: found is the result of the lookup loop, zero the
\* result of isFieldValueZero
requiredFails(found, meta, zero) == found = Nil /\ meta.required /\ zero

\* a raw value that is never the default
rawValueOfNoDefault(found, meta, zero) == found

\* a raw value that prefers the default to the variable
rawValueOfDefaultFirst(found, meta, zero) ==
    IF meta.defValue /= Nil THEN meta.defValue ELSE found

\* the raw value that is parsed: the variable's value, or the default when
\* no variable was found and the field is zero; Nil if there is neither
rawValueOf(found, meta, zero) == IF found = Nil /\ zero THEN meta.defValue ELSE found

\* an iteration that looks the variable up and makes the required check
\* before it passes over a field that is not updatable
processFieldRequiredFirst(c, env, meta, upd) ==
    LET found    == lookupEnvList(env, meta.envList, 1)
        zero     == isFieldValueZero(c, meta)
        rawValue == rawValueOf(found, meta, zero)
        src      == IF found /= Nil THEN "env" ELSE "default"
        envName  == IF Len(meta.envList) > 0 THEN meta.envList[1] ELSE <<>>
    IN  IF requiredFails(found, meta, zero)
        THEN [cfg |-> c,
              err |-> FieldErr("required", meta, envName, Nil),
              ev  |-> Event("required", meta.fieldValue, Nil, "", "")]
        ELSE IF skipField(upd, meta)
        THEN [cfg |-> c, err |-> Nil, ev |-> Event("skip", meta.fieldValue, Nil, "", "")]
        ELSE IF rawValue = Nil
        THEN [cfg |-> c, err |-> Nil, ev |-> Event("none", meta.fieldValue, Nil, "", "")]
        ELSE LET r == parseValue(meta.fieldType, GetAt(c, meta.fieldValue),
                                 rawValue[1], meta.separator, meta.layout)
             IN  IF r.err /= Nil
                 THEN [cfg |-> SetAt(c, meta.fieldValue, r.val),
                       err |-> FieldErr("parsing", meta, envName, r.err),
                       ev  |-> Event("fail", meta.fieldValue, rawValue, src, r.by)]
                 ELSE [cfg |-> SetAt(c, meta.fieldValue, r.val),
                       err |-> Nil,
                       ev  |-> Event("set", meta.fieldValue, rawValue, src, r.by)]

\* one iteration of the field loop of readEnvVars, for meta, on record c
\* with environment env: the new record, the error if the pass ends here,
\* and the log entry
processField(c, env, meta, upd) ==
    IF skipField(upd, meta)
    THEN [cfg |-> c, err |-> Nil, ev |-> Event("skip", meta.fieldValue, Nil, "", "")]
    ELSE
    LET found    == lookupEnvList(env, meta.envList, 1)
        zero     == isFieldValueZero(c, meta)
        rawValue == rawValueOf(found, meta, zero)
        src      == IF found /= Nil THEN "env" ELSE "default"
        envName  == IF Len(meta.envList) > 0 THEN meta.envList[1] ELSE <<>>
    IN  IF requiredFails(found, meta, zero)
        THEN [cfg |-> c,
              err |-> FieldErr("required", meta, envName, Nil),
              ev  |-> Event("required", meta.fieldValue, Nil, "", "")]
        ELSE IF rawValue = Nil
        THEN [cfg |-> c, err |-> Nil, ev |-> Event("none", meta.fieldValue, Nil, "", "")]
        ELSE LET r == parseValue(meta.fieldType, GetAt(c, meta.fieldValue),
                                 rawValue[1], meta.separator, meta.layout)
             IN  IF r.err /= Nil
                 THEN [cfg |-> SetAt(c, meta.fieldValue, r.val),
                       err |-> FieldErr("parsing", meta, envName, r.err),
                       ev  |-> Event("fail", meta.fieldValue, rawValue, src, r.by)]
                 ELSE [cfg |-> SetAt(c, meta.fieldValue, r.val),
                       err |-> Nil,
                       ev  |-> Event("set", meta.fieldValue, rawValue, src, r.by)]

\* the value an Update method stores
UpdateValue == 7

\* Updater.Update of a type, by what the type's method does: fail as
\* testUpdater does with err set, or store fresh values in the record as
\* ConfigUpdate does

Update(t, c) ==
    CASE t.updater = "fail" -> [err |-> Err("test", <<>>), cfg |-> c]
      [] t.updater = "set"  -> [err |-> Nil,
                                cfg |-> [c EXCEPT !.First = UpdateValue, !.Second = UpdateValue]]
      [] t.updater = "host" -> [err |-> Nil, cfg |-> [c EXCEPT !.Host = <<"u">>]]

\* the environment variables GetDescription describes, in the order of its
\* two loops (before the lines are sorted): every name of every field that
\* has names
describedEnvs(metas) ==
    LET Flatten[i \in 0..Len(metas)] ==
            IF i = 0 THEN <<>> ELSE Flatten[i - 1] \o metas[i].envList
    IN  Flatten[Len(metas)]

\* the characters of the model's strings in byte order
ByteOrder ==
    <<"\t", "\n", " ", "\"", "(", ")", ",", ":",
      "0", "1", "2", "3", "4", "5", "6", "7", "8", "9",
      "A", "B", "C", "D", "E", "F", "G", "H", "I", "J", "K", "L", "M",
      "N", "O", "P", "Q", "R", "S", "T", "U", "V", "W", "X", "Y", "Z",
      "a", "b", "c", "d", "e", "f", "g", "h", "i", "j", "k", "l", "m",
      "n", "o", "p", "q", "r", "s", "t", "u", "v", "w", "x", "y", "z">>

Ord(c) == CHOOSE i \in 1..Len(ByteOrder) : ByteOrder[i] = c

\* a < b for Go strings
StrLess(a, b) ==
    \E i \in 1..(Len(b)) :
        /\ \A j \in 1..(i - 1) : j <= Len(a) /\ a[j] = b[j]
        /\ (i > Len(a) \/ (i <= Len(a) /\ Ord(a[i]) < Ord(b[i])))

RECURSIVE InsertSorted(_, _)
InsertSorted(sorted, x) ==
    IF sorted = <<>> THEN <<x>>
    ELSE IF StrLess(x, Head(sorted)) THEN <<x>> \o sorted
    ELSE <<Head(sorted)>> \o InsertSorted(Tail(sorted), x)

RECURSIVE SortStrings(_)
\* sort.Strings
SortStrings(strs) ==
    IF strs = <<>> THEN <<>>
    ELSE InsertSorted(SortStrings(SubSeq(strs, 1, Len(strs) - 1)), strs[Len(strs)])

RECURSIVE Join(_)
\* strings.Join(strs, "")
Join(strs) == IF strs = <<>> THEN <<>> ELSE Head(strs) \o Join(Tail(strs))

\* reflect.Kind.String
KindString(t) ==
    CASE t.kind = "string" -> <<"s","t","r","i","n","g">>
      [] t.kind = "bool"   -> <<"b","o","o","l">>
      [] t.kind = "int"    -> IF t.bits = 64 THEN <<"i","n","t","6","4">> ELSE <<"i","n","t","8">>
      [] t.kind = "uint"   -> <<"u","i","n","t","8">>
      [] t.kind = "slice"  -> <<"s","l","i","c","e">>
      [] t.kind = "map"    -> <<"m","a","p">>
      [] t.kind = "struct" -> <<"s","t","r","u","c","t">>
      [] t.kind = "func"   -> <<"f","u","n","c">>
      [] OTHER             -> <<"p","t","r">>

\* the header GetDescription uses when it is given none
DefaultHeader ==
    <<"E","n","v","i","r","o","n","m","e","n","t"," ","v","a","r","i","a","b","l","e","s",":">>

AlternativeTo == <<" ","(","a","l","t","e","r","n","a","t","i","v","e"," ","t","o"," ">>

DefaultText == <<" ","(","d","e","f","a","u","l","t"," ">>

\* fmt's %q of a string without characters to escape
Quote(str) == <<"\"">> \o str \o <<"\"">>

\* elemDescription of GetDescription for name number i of meta m
elemDescription(m, i) ==
    <<"\n", " ", " ">> \o m.envList[i] \o <<" ">> \o KindString(m.fieldType)
      \o (IF i > 1 THEN AlternativeTo \o m.envList[1] \o <<")">> ELSE <<>>)
      \o <<"\n", " ", " ", " ", " ", "\t">> \o m.description
      \o (IF m.defValue /= Nil THEN DefaultText \o Quote(m.defValue[1]) \o <<")">> ELSE <<>>)

\* the two loops of GetDescription: the description slice before it is sorted
descriptionOf(metas) ==
    LET Lines[i \in 0..Len(metas)] ==
            IF i = 0 THEN <<>>
            ELSE Lines[i - 1] \o [k \in 1..Len(metas[i].envList) |-> elemDescription(metas[i], k)]
    IN  Lines[Len(metas)]

\* a GetDescription that joins the lines as the loops produced them
getDescriptionUnsorted(t, headerText) ==
    LET m == readStructMetadata(t)
        header == IF headerText /= Nil THEN headerText[1] ELSE DefaultHeader
        description == descriptionOf(m.metas)
    IN  IF m.err /= Nil THEN [err |-> m.err, text |-> <<>>, lines |-> <<>>]
        ELSE IF Len(description) = 0 THEN [err |-> Nil, text |-> <<>>, lines |-> <<>>]
        ELSE [err |-> Nil, text |-> header \o Join(description), lines |-> description]

\* GetDescription(cfg, headerText): the returned text and error; "lines" is
\* the description slice as it is joined
getDescription(t, headerText) ==
    LET m == readStructMetadata(t)
        header == IF headerText /= Nil THEN headerText[1] ELSE DefaultHeader
        description == SortStrings(descriptionOf(m.metas))
    IN  IF m.err /= Nil THEN [err |-> m.err, text |-> <<>>, lines |-> <<>>]
        ELSE IF Len(description) = 0 THEN [err |-> Nil, text |-> <<>>, lines |-> <<>>]
        ELSE [err |-> Nil, text |-> header \o Join(description), lines |-> description]

\* formatBool of PrintDescription
formatBool(b) == IF b THEN <<"t","r","u","e">> ELSE <<>>

\* derefString of PrintDescription
derefString(o) == IF o /= Nil THEN o[1] ELSE <<>>

\* one row of DefaultTableFormat for meta v; usage_key is v.envList[0]
usageRow(v) ==
    [key |-> v.envList[1], type |-> KindString(v.fieldType), default |-> derefString(v.defValue),
     required |-> formatBool(v.required), description |-> v.description]

RECURSIVE executeTemplate(_, _, _)
\* tmpl.Execute(tabs, meta): {{range .}} calls the usage functions on every
\* meta in turn; on a meta without names usage_key indexes an empty slice
\* and the call fails there
executeTemplate(metas, i, rows) ==
    IF i > Len(metas) THEN [err |-> Nil, lines |-> rows]
    ELSE IF Len(metas[i].envList) = 0
    THEN [err |-> Err("index out of range", metas[i].fieldName), lines |-> rows]
    ELSE executeTemplate(metas, i + 1, Append(rows, usageRow(metas[i])))

\* PrintDescription(cfg): the error and the rows the template produced
printDescription(t) ==
    LET m == readStructMetadata(t)
    IN  IF m.err /= Nil THEN [err |-> m.err, lines |-> <<>>]
        ELSE executeTemplate(m.metas, 1, <<>>)

\* a readEnvVars that goes on after a failed Update
beginReadEnvVarsIgnoreErr(c, upd) ==
    LET m == readStructMetadata(cfgType)
    IN  IF m.err /= Nil
        THEN [go |-> FALSE, cfg |-> c, err |-> m.err, metas |-> <<>>, log |-> <<>>]
        ELSE IF cfgType.updater /= ""
        THEN [go |-> TRUE, cfg |-> Update(cfgType, c).cfg, err |-> Nil, metas |-> m.metas,
              log |-> <<Event("Update", <<>>, Nil, "", "")>>]
        ELSE [go |-> TRUE, cfg |-> c, err |-> Nil, metas |-> m.metas, log |-> <<>>]

\* readEnvVars(cfg, update) up to its field loop, entered with record c:
\* metadata, then the root's Update method; "go" tells whether the field
\* loop is entered
beginReadEnvVars(c, upd) ==
    LET m == readStructMetadata(cfgType)
    IN  IF m.err /= Nil
        THEN [go |-> FALSE, cfg |-> c, err |-> m.err, metas |-> <<>>, log |-> <<>>]
        ELSE IF cfgType.updater /= ""
        THEN LET u == Update(cfgType, c)
                 ev == Event("Update", <<>>, Nil, "", "")
             IN  IF u.err /= Nil
                 THEN [go |-> FALSE, cfg |-> u.cfg, err |-> u.err, metas |-> m.metas, log |-> <<ev>>]
                 ELSE [go |-> TRUE, cfg |-> u.cfg, err |-> Nil, metas |-> m.metas, log |-> <<ev>>]
        ELSE [go |-> TRUE, cfg |-> c, err |-> Nil, metas |-> m.metas, log |-> <<>>]

\* no description call has returned since the last operation
NoOut == [text |-> <<>>, lines |-> <<>>, panic |-> FALSE]

\* the fields of zeroed that are zero in the record c
StillZeroed(c) == { p \in zeroed : GetAt(c, p) = GetAt(ZeroOf(cfgType), p) }

\* zeroed after an iteration of the field loop with result r for meta
ZeroedBy(r, meta) ==
    IF r.ev.what /= "set" \/ r.ev.src /= "env" THEN zeroed
    ELSE IF GetAt(r.cfg, meta.fieldValue) = ZeroOf(meta.fieldType)
    THEN zeroed \cup {meta.fieldValue}
    ELSE zeroed \ {meta.fieldValue}

\* the state after readEnvVars(cfg, upd) was entered from operation o with
\* record c (cfg0 and environ are set by the caller)
EnterPass(o, c, upd) ==
    LET b == beginReadEnvVars(c, upd)
    IN  /\ op' = o
        /\ update' = upd
        /\ cfg' = b.cfg
        /\ cfg1' = b.cfg
        /\ metaInfo' = b.metas
        /\ log' = b.log
        /\ idx' = 1
        /\ out' = NoOut
        /\ zeroed' = StillZeroed(c)
        /\ IF b.go /\ Len(b.metas) > 0
           THEN /\ pc' = "run"
                /\ err' = Nil
                /\ fullRead' = fullRead
           ELSE /\ pc' = "idle"
                /\ err' = b.err
                /\ fullRead' = (fullRead \/ (b.err = Nil /\ ~upd))

\* ReadEnv(cfg)
ReadEnv ==
    /\ pc = "idle"
    /\ cfg0' = cfg
    /\ cfgD' = cfg
    /\ EnterPass("ReadEnv", cfg, FALSE)
    /\ fileArg' = Nil
    /\ repeated' = (op = "ReadEnv" /\ err = Nil)
    /\ UNCHANGED <<cfgType, environ>>

\* UpdateEnv(cfg)
UpdateEnv ==
    /\ pc = "idle"
    /\ cfg0' = cfg
    /\ cfgD' = cfg
    /\ EnterPass("UpdateEnv", cfg, TRUE)
    /\ fileArg' = Nil
    /\ repeated' = (op = "UpdateEnv" /\ err = Nil)
    /\ UNCHANGED <<cfgType, environ>>

\* a field loop that notes an error and goes on to the next field
FieldStepKeepGoing ==
    /\ pc = "run"
    /\ LET r == processField(cfg, environ, metaInfo[idx], update)
       IN  /\ cfg' = r.cfg
           /\ log' = Append(log, r.ev)
           /\ zeroed' = ZeroedBy(r, metaInfo[idx])
           /\ err' = IF r.err /= Nil THEN r.err ELSE err
           /\ idx' = idx + 1
           /\ pc' = IF idx = Len(metaInfo) THEN "idle" ELSE "run"
           /\ fullRead' = fullRead
    /\ UNCHANGED <<cfgType, environ, update, metaInfo, op, cfg0, cfgD, cfg1, out, fileArg,
                   repeated>>

\* a field loop that looks the variables up in the environment as it was
\* when ReadConfig was called
FieldStepFromSnapshot ==
    /\ pc = "run"
    /\ LET env == IF fileArg /= Nil THEN fileArg[1].environ ELSE environ
           r == processField(cfg, env, metaInfo[idx], update)
       IN  /\ cfg' = r.cfg
           /\ log' = Append(log, r.ev)
           /\ zeroed' = ZeroedBy(r, metaInfo[idx])
           /\ IF r.err /= Nil
              THEN /\ err' = r.err
                   /\ pc' = "idle"
                   /\ idx' = idx
                   /\ fullRead' = fullRead
              ELSE /\ err' = Nil
                   /\ idx' = idx + 1
                   /\ pc' = IF idx = Len(metaInfo) THEN "idle" ELSE "run"
                   /\ fullRead' = (fullRead \/ (idx = Len(metaInfo) /\ ~update))
    /\ UNCHANGED <<cfgType, environ, update, metaInfo, op, cfg0, cfgD, cfg1, out, fileArg,
                   repeated>>

\* one iteration of "for _, meta := range metaInfo"; the pass returns at the
\* first error or after the last field
FieldStep ==
    /\ pc = "run"
    /\ LET r == processField(cfg, environ, metaInfo[idx], update)
       IN  /\ cfg' = r.cfg
           /\ log' = Append(log, r.ev)
           /\ zeroed' = ZeroedBy(r, metaInfo[idx])
           /\ IF r.err /= Nil
              THEN /\ err' = r.err
                   /\ pc' = "idle"
                   /\ idx' = idx
                   /\ fullRead' = fullRead
              ELSE /\ err' = Nil
                   /\ idx' = idx + 1
                   /\ pc' = IF idx = Len(metaInfo) THEN "idle" ELSE "run"
                   /\ fullRead' = (fullRead \/ (idx = Len(metaInfo) /\ ~update))
    /\ UNCHANGED <<cfgType, environ, update, metaInfo, op, cfg0, cfgD, cfg1, out, fileArg,
                   repeated>>

----------------------------------------------------------------------------
(* Files: parseFile and ReadConfig *)

\* strings.ToLower, on the letters that occur in file extensions
LowerChar(c) ==
    CASE c = "Y" -> "y" [] c = "M" -> "m" [] c = "L" -> "l" [] c = "A" -> "a"
      [] c = "J" -> "j" [] c = "S" -> "s" [] c = "O" -> "o" [] c = "N" -> "n"
      [] c = "T" -> "t" [] c = "E" -> "e" [] c = "D" -> "d" [] c = "V" -> "v"
      [] OTHER -> c

ToLower(str) == [i \in 1..Len(str) |-> LowerChar(str[i])]

RECURSIVE canDecode(_, _)
\* whether a decoder stores a value at the path below a value of type t: it
\* passes over the keys of unexported fields
canDecode(t, path) ==
    \/ path = <<>>
    \/ \E i \in 1..Len(t.fields) :
          /\ t.fields[i].name = Head(path) /\ t.fields[i].exported
          /\ canDecode(t.fields[i].type, Tail(path))

RECURSIVE decodeInto(_, _, _)
\* the structured decoders (yaml, json, toml, edn): every key of the file
\* that names a field stores its value there, the other fields are left
\* alone.  assign is the file's content as a sequence of <<path, value>>.
decodeInto(c, assign, i) ==
    IF i > Len(assign) THEN c
    ELSE IF canDecode(cfgType, assign[i][1])
    THEN decodeInto(SetAt(c, assign[i][1], assign[i][2]), assign, i + 1)
    ELSE decodeInto(c, assign, i + 1)

\* a parseENV that leaves a variable that is already set as it is
parseENVKeepsSet(file, c, env) ==
    IF file.bad THEN [err |-> Err("dotenv", <<>>), cfg |-> c, env |-> env]
    ELSE [err |-> Nil, cfg |-> c,
          env |-> [n \in (DOMAIN env) \cup (DOMAIN file.vars) |->
                     IF n \in DOMAIN env THEN env[n] ELSE file.vars[n]]]

\* parseENV: godotenv.Parse, then os.Setenv for every variable of the file;
\* the record is not touched
parseENV(file, c, env) ==
    IF file.bad THEN [err |-> Err("dotenv", <<>>), cfg |-> c, env |-> env]
    ELSE [err |-> Nil, cfg |-> c,
          env |-> [n \in (DOMAIN env) \cup (DOMAIN file.vars) |->
                     IF n \in DOMAIN file.vars THEN file.vars[n] ELSE env[n]]]

\* parseFile(path, cfg): a file is its extension, whether it can be opened,
\* whether its content is malformed (bad), and its content (assign for the
\* structured formats, vars for dotenv)
parseFile(file, c, env) ==
    IF ~file.exists THEN [err |-> Err("open", <<>>), cfg |-> c, env |-> env]
    ELSE LET ext == ToLower(file.ext)
             r == CASE ext \in {<<".","y","a","m","l">>, <<".","y","m","l">>,
                                <<".","j","s","o","n">>, <<".","t","o","m","l">>,
                                <<".","e","d","n">>} ->
                          IF file.bad THEN [err |-> Err("decode", <<>>), cfg |-> c, env |-> env]
                          ELSE [err |-> Nil, cfg |-> decodeInto(c, file.assign, 1), env |-> env]
                    [] ext = <<".","e","n","v">> -> parseENV(file, c, env)
                    [] OTHER -> [err |-> Err("file format doesn't supported by the parser", ext),
                                 cfg |-> c, env |-> env]
         IN  IF r.err /= Nil /\ r.err[1].msg \in {"decode", "dotenv"}
             THEN [err |-> Err("config file parsing error", <<>>), cfg |-> r.cfg, env |-> r.env]
             ELSE r

----------------------------------------------------------------------------
(* The record types, environments and files the model is run on *)

A == <<"A">>

B == <<"B">>

C == <<"C">>

D == <<"D">>

\* a tag key with an optional text, and a tag key that is present or not
Opt(key, o) == IF o = Nil THEN <<>> ELSE (key :> o[1])

Flag(key, b, text) == IF b THEN (key :> text) ELSE <<>>

MkTag(env, def, req, upd) ==
    Opt(TagEnv, env) @@ Opt(TagEnvDefault, def)
        @@ Flag(TagEnvRequired, req, <<"t","r","u","e">>) @@ Flag(TagEnvUpd, upd, <<>>)

\* type Flat struct {
\*     First  int8 `env:"C" env-default:"1"`
\*     Second int8 <tag>
\* }
\* with or without an Update method
Flat(tag, upd) ==
    [StructOf("Flat", << Field("First", TInt8, TRUE, MkTag(Some(C), Some(<<"1">>), FALSE, FALSE)),
                         Field("Second", TInt8, TRUE, tag) >>)
     EXCEPT !.updater = upd]

\* the tags of Second: no name, one name or a name with an alternate, with
\* or without default and required flag, updatable; the required field
\* that is not updatable; and a default that is no number
FlatTags ==
    { MkTag(e, d, r, TRUE) : e \in {Nil, Some(A), Some(<<"A", ",", "B">>)},
                             d \in {Nil, Some(<<"1">>)},
                             r \in BOOLEAN }
    \cup { MkTag(Some(A), d, TRUE, FALSE) : d \in {Nil, Some(<<"1">>)} }
    \cup { MkTag(e, Some(<<"x">>), FALSE, TRUE) : e \in {Nil, Some(A)} }

\* the record types without an Update method, and those with one
FlatTypes ==
    { Flat(t, "") : t \in FlatTags }
    \cup { Flat(MkTag(Some(<<"A", ",", "B">>), Some(<<"1">>), FALSE, u), h) :
             u \in BOOLEAN, h \in {"set", "fail"} }

\* type Logging struct { Debug bool `env:"X"` }
Logging == StructOf("Logging", << Field("Debug", TBool, TRUE, (TagEnv :> <<"X">>)) >>)

\* type DBConfig struct {
\*     Host    string  `env:"H,G"`
\*     Logging Logging `env-prefix:"D"`
\* }
\* with or without an Update method
DBConfig(upd) ==
    [StructOf("DBConfig", << Field("Host", TString, TRUE, (TagEnv :> <<"H", ",", "G">>)),
                             Field("Logging", Logging, TRUE, (TagEnvPrefix :> <<"D">>)) >>)
     EXCEPT !.updater = upd]

\* type Config struct {
\*     Name     string `env:"H"`
\*     Default  DBConfig
\*     ReadOnly DBConfig `env-prefix:"R"`
\* }
Config(upd) ==
    StructOf("Config", << Field("Name", TString, TRUE, (TagEnv :> <<"H">>)),
                          Field("Default", DBConfig(upd), TRUE, <<>>),
                          Field("ReadOnly", DBConfig(upd), TRUE, (TagEnvPrefix :> <<"R">>)) >>)

\* the nested record types: DBConfig without and with an Update method
NestedTypes == { Config(""), Config("host") }

\* type MyField string, with the method SetValue
TMyField == [Ty("string", "MyField", 0) EXCEPT !.setter = TRUE]

\* a string type with both methods, UnmarshalText and SetValue
TTextField == [Ty("string", "TextField", 0) EXCEPT !.text = TRUE, !.setter = TRUE]

\* type Kinds struct {
\*     Time   time.Time `env:"A" env-layout:"1"`
\*     Custom MyField   `env:"B"`
\*     Both   TextField `env:"C"`
\*     Plain  string    `env:"D"`
\* }
Kinds ==
    StructOf("Kinds", << Field("Time", TTime, TRUE, (TagEnv :> A @@ TagEnvLayout :> <<"1">>)),
                         Field("Custom", TMyField, TRUE, (TagEnv :> B)),
                         Field("Both", TTextField, TRUE, (TagEnv :> C)),
                         Field("Plain", TString, TRUE, (TagEnv :> D)) >>)

KindTypes == { Kinds }

\* type Shapes struct { Item T `env:"A" env-separator:"..."` }
Shapes(item, sepTag) ==
    StructOf("Shapes", << Field("Item", item, TRUE,
                                (TagEnv :> A) @@ Opt(TagEnvSeparator, sepTag)) >>)

\* the types of Item: sequences, bytes, mappings, and shapes parseValue has
\* no case for, alone and as element, key and value
ShapeItems ==
    { SliceOf(TInt8), SliceOf(TString), SliceOf(TUint8),
      MapOf(TString, TInt8), MapOf(TString, TString),
      TFunc, SliceOf(TFunc), MapOf(TString, TFunc), MapOf(TChan, TString) }

\* each with the default separator and with ";", and bytes with an empty one
ShapeTypes ==
    { Shapes(i, sp) : i \in ShapeItems, sp \in {Nil, Some(<<";">>)} }
    \cup { Shapes(SliceOf(TUint8), Some(<<>>)) }

\* type Empty struct{}
Empty == StructOf("Empty", <<>>)

\* type Private struct { secret int8 `env:"A" env-default:"1" env-upd:""` }
Private ==
    StructOf("Private", << Field("secret", TInt8, FALSE, MkTag(Some(A), Some(<<"1">>), FALSE, TRUE)) >>)

\* type Hidden struct {
\*     Shown  int8 `env:"A" env-upd:""`
\*     secret int8 <tag>
\*     server struct {
\*         Host int8 `env:"C" env-default:"1" env-upd:""`
\*     }
\* }
Hidden(tag) ==
    StructOf("Hidden",
        << Field("Shown", TInt8, TRUE, MkTag(Some(A), Nil, FALSE, TRUE)),
           Field("secret", TInt8, FALSE, tag),
           Field("server",
                 StructOf("server", << Field("Host", TInt8, TRUE,
                                             MkTag(Some(C), Some(<<"1">>), FALSE, TRUE)) >>),
                 FALSE, <<>>) >>)

\* the tags of secret: a name with a default, and a name that is required
HiddenTags == { MkTag(Some(B), Some(<<"1">>), FALSE, TRUE), MkTag(Some(B), Nil, TRUE, TRUE) }

\* the roots the description calls and the edge cases are run on: a scalar,
\* structs without a field to fill, structs with unexported parts, and
\* Flat with no, one and two names for Second, with and without default
DescrTypes ==
    { TInt8, Empty, Private }
    \cup { Hidden(t) : t \in HiddenTags }
    \cup { Flat(MkTag(e, d, FALSE, TRUE), "") : e \in {Nil, Some(A), Some(<<"A", ",", "B">>)},
                                               d \in {Nil, Some(<<"1">>)} }

\* type Times struct { Item T `env:"A" env-layout:"..."` }
Times(item, layoutTag) ==
    StructOf("Times", << Field("Item", item, TRUE,
                               (TagEnv :> A) @@ Opt(TagEnvLayout, layoutTag)) >>)

\* a timestamp, a sequence of timestamps and a mapping to timestamps, each
\* without layout tag and with the layout "1" (one digit)
TimesTypes ==
    { Times(i, l) : i \in {TTime, SliceOf(TTime), MapOf(TString, TTime)},
                    l \in {Nil, Some(<<"1">>)} }

\* type Scalars struct { Item T `env:"A"` }
Scalars(item) == StructOf("Scalars", << Field("Item", item, TRUE, (TagEnv :> A)) >>)

\* the built-in shapes: boolean, integers of 8 bits, duration, and
\* sequences and mappings of them
ScalarTypes ==
    { Scalars(i) : i \in { TBool, TInt8, TUint8, TDuration, SliceOf(TInt8),
                           MapOf(TString, TInt8), MapOf(TInt8, TBool) } }

\* type Pair struct {
\*     First  int8 `env:"A"`
\*     Second int8 `env:"B,C" env-default:"1"`
\* }
Pair ==
    StructOf("Pair", << Field("First", TInt8, TRUE, MkTag(Some(A), Nil, FALSE, TRUE)),
                        Field("Second", TInt8, TRUE,
                              MkTag(Some(<<"B", ",", "C">>), Some(<<"1">>), FALSE, TRUE)) >>)

PairTypes == { Pair }

\* type Blank struct { Item T `env:"A,B" ...` }, with a default or required
Blank(item, def) ==
    StructOf("Blank", << Field("Item", item, TRUE,
                               MkTag(Some(<<"A", ",", "B">>), def, def = Nil, TRUE)) >>)

\* a string, a number, a boolean, a sequence and a mapping, each required
\* and each with a default of its shape
BlankTypes ==
    { Blank(TString, Nil), Blank(TString, Some(<<"d">>)),
      Blank(TInt8, Nil), Blank(TInt8, Some(<<"1">>)),
      Blank(TBool, Nil), Blank(TBool, Some(<<"t">>)),
      Blank(SliceOf(TInt8), Nil), Blank(SliceOf(TInt8), Some(<<"1">>)),
      Blank(MapOf(TString, TInt8), Nil), Blank(MapOf(TString, TInt8), Some(<<"a", ":", "1">>)) }

ONE == <<"O", "N", "E">>

TWO == <<"T", "W", "O">>

THREE == <<"T", "H", "R", "E", "E">>

\* One int8 `env:"ONE" env-description:"one"`, and so Two and Three
Described(name, env, descr) ==
    Field(name, TInt8, TRUE, (TagEnv :> env) @@ (TagEnvDescription :> descr))

One == Described("One", ONE, <<"o", "n", "e">>)

Two == Described("Two", TWO, <<"t", "w", "o">>)

Three == Described("Three", THREE, <<"t", "h", "r", "e", "e">>)

\* testSingleEnv with its fields in three orders, testDeep with them in
\* nested structs, and testSeveralEnv
NumberTypes ==
    { StructOf("Numbers", << One, Two, Three >>),
      StructOf("Numbers", << Three, Two, One >>),
      StructOf("Numbers", << Two, One, Three >>),
      StructOf("Numbers", << Field("TwoStruct", StructOf("testSubTwo", << Two, Three >>), TRUE, <<>>),
                             Field("OneStruct", StructOf("testSubOne", << One >>), TRUE, <<>>) >>),
      StructOf("Numbers", << Described("One", <<"O", "N", "E", ",", "E", "N", "O">>, <<"o", "n", "e">>),
                             Described("Two", <<"T", "W", "O", ",", "O", "W", "T">>, <<"t", "w", "o">>) >>) }

Leaf(name, env) == Field(name, TInt8, TRUE, (TagEnv :> env))

Group(name, fields) == Field(name, StructOf(name, fields), TRUE, <<>>)

\* type Tree struct {
\*     G1 struct {
\*         P  int8 `env:"A"`
\*         G3 struct { R int8 `env:"C"` }
\*         Q  int8 `env:"B"`
\*     }
\*     G2   struct { S int8 `env:"D"` }
\*     Last int8 `env:"E"`
\* }
Tree ==
    StructOf("Tree",
        << Group("G1", << Leaf("P", A), Group("G3", << Leaf("R", C) >>), Leaf("Q", B) >>),
           Group("G2", << Leaf("S", D) >>),
           Leaf("Last", <<"E">>) >>)

TreeTypes == { Tree }

\* type Stored struct {
\*     First  int8 `env:"C" env-default:"1"`
\*     Second int8 `env:"A,B" env-default:"1"`
\* }
\* with or without an Update method
Stored(upd) ==
    [StructOf("Stored",
              << Field("First", TInt8, TRUE, MkTag(Some(C), Some(<<"1">>), FALSE, FALSE)),
                 Field("Second", TInt8, TRUE,
                       MkTag(Some(<<"A", ",", "B">>), Some(<<"1">>), FALSE, FALSE)) >>)
     EXCEPT !.updater = upd]

StoredTypes == { Stored(""), Stored("set") }

Env == <<".","e","n","v">>

\* the variables and values the environment of a record type is drawn from
EnvNames(t) ==
    CASE t.name = "Flat" -> {A, B, C}
      [] t.name = "Config" -> {<<"H">>, <<"G">>, <<"R", "H">>, <<"X">>, <<"D", "X">>,
                               <<"R", "D", "X">>}
      [] t.name = "Kinds" -> {A, B, C, D}
      [] t.name = "Shapes" -> {A}
      [] t.name \in {"int8", "Empty", "Private"} -> {A}
      [] t.name = "Hidden" -> {A, B, C}
      [] t.name \in {"Times", "Scalars"} -> {A}
      [] t.name = "Stored" -> {A, B, C}
      [] t.name = "Tree" -> {A, B, C, D, <<"E">>}
      [] t.name = "Pair" -> {A, B, C}
      [] t.name = "Blank" -> {A, B}
      [] t.name = "Numbers" -> {ONE, TWO}

EnvValues(t) ==
    CASE t.name = "Flat" -> {<<"0">>, <<"1">>, <<"x">>}
      [] t.name = "Config" -> {<<"1">>}
      [] t.name = "Kinds" -> {<<"5">>, <<>>}
      [] t.name = "Shapes" ->
            { <<>>, <<" ">>, <<"1", ",", "2">>, <<"1", ";", "2">>, <<"1", ",", "x">>,
              <<"a", ":", "1", ",", "b", ":", "2">>, <<"a", ":", "1", ";", "b", ":", "2">>,
              <<"a", ":", "1", ",", "b", "a", "d">>, <<"b", "a", "d", ",", "a", ":", "1">>,
              <<"a", ":", "1", ":", "2">> }
      [] t.name \in {"int8", "Empty", "Private"} -> {<<"1">>}
      [] t.name = "Hidden" -> {<<"1">>, <<"x">>}
      [] t.name = "Stored" -> {<<"0">>, <<"x">>}
      [] t.name = "Tree" -> {<<"1">>, <<"x">>}
      [] t.name = "Pair" -> {<<"1">>, <<"2">>}
      [] t.name = "Blank" -> {<<>>, <<"1">>}
      [] t.name = "Scalars" ->
            { <<"1">>, <<"-", "1">>, <<"1", "2", "7">>, <<"1", "2", "8">>, <<"-", "1", "2", "8">>,
              <<"-", "1", "2", "9">>, <<"2", "5", "5">>, <<"2", "5", "6">>, <<"x">>,
              <<"y", "e", "s">>, <<"t", "r", "u", "e">>, <<"2", "s">>, <<"2", "x">>,
              <<"1", ",", "2">>, <<"1", ",", "1", "2", "8">>,
              <<"a", ":", "1">>, <<"a", ":", "1", ",", "b", ":", "1", "2", "8">>,
              <<"a", ":", "1", ",", "b">>, <<"1", ":", "t">>, <<"1", ":", "t", ",", "x", ":", "t">>,
              <<"1", ":", "t", ",", "2", ":", "y", "e", "s">> }
      [] t.name = "Numbers" -> {<<"1">>}
      [] t.name = "Times" ->
            { <<"5">>, <<"2", "T", "1">>, <<"5", ",", "6">>, <<"2", "T", "1", ",", "3", "T", "4">>,
              <<"a", ":", "5">>, <<"a", ":", "2", "T", "1">> }

File(ext, exists, bad, assign, fvars) ==
    [ext |-> ext, exists |-> exists, bad |-> bad, assign |-> assign, vars |-> fvars]

Yml == <<".","y","m","l">>

\* the files ReadConfig is called on
Files(t) ==
    CASE t.name = "Flat" ->
            { File(Yml, TRUE, FALSE, <<>>, <<>>),
              File(Yml, TRUE, FALSE, << <<<<"Second">>, 5>> >>, <<>>),
              File(Yml, TRUE, TRUE, <<>>, <<>>),
              File(<<".","e","n","v">>, TRUE, FALSE, <<>>, (A :> <<"1">>)) }
      [] t.name = "Config" ->
            { File(Yml, TRUE, FALSE, << <<<<"ReadOnly", "Host">>, <<"f">>>> >>, <<>>) }
      [] t.name = "Kinds" ->
            { File(Yml, TRUE, FALSE, << <<<<"Plain">>, <<"f">>>> >>, <<>>) }
      [] t.name = "Shapes" ->
            { File(Yml, TRUE, FALSE, <<>>, <<>>) }
      [] t.name \in {"Times", "Numbers", "Scalars", "Pair", "Blank"} ->
            { File(Yml, TRUE, FALSE, <<>>, <<>>) }
      [] t.name = "Tree" ->
            { File(Yml, TRUE, FALSE, << <<<<"G1", "G3", "R">>, 5>> >>, <<>>) }
      [] t.name = "int8" ->
            { File(Yml, FALSE, FALSE, <<>>, <<>>) }
      [] t.name = "Stored" ->
            { File(Yml, TRUE, FALSE, << <<<<"Second">>, 5>> >>, <<>>),
              File(<<".","Y","M","L">>, TRUE, FALSE, << <<<<"Second">>, 5>> >>, <<>>),
              File(Yml, TRUE, TRUE, << <<<<"Second">>, 5>> >>, <<>>),
              File(Yml, FALSE, FALSE, << <<<<"Second">>, 5>> >>, <<>>),
              File(<<".","t","x","t">>, TRUE, FALSE, << <<<<"Second">>, 5>> >>, (A :> <<"1">>)),
              File(<<>>, TRUE, FALSE, << <<<<"Second">>, 5>> >>, (A :> <<"1">>)),
              File(Env, TRUE, FALSE, << <<<<"Second">>, 5>> >>, (A :> <<"1">>)),
              File(<<".","E","n","v">>, TRUE, FALSE, <<>>, (A :> <<"2">> @@ B :> <<"1">>)),
              File(Env, TRUE, TRUE, <<>>, (A :> <<"1">>)),
              File(Env, FALSE, FALSE, <<>>, (A :> <<"1">>)) }
      [] t.name = "Empty" ->
            { File(Yml, TRUE, FALSE, <<>>, <<>>) }
      [] t.name = "Private" ->
            { File(Yml, TRUE, FALSE, << <<<<"secret">>, 5>> >>, <<>>) }
      [] t.name = "Hidden" ->
            { File(Yml, TRUE, FALSE, << <<<<"Shown">>, 5>>, <<<<"secret">>, 5>>,
                                        <<<<"server", "Host">>, 5>> >>, <<>>) }

----------------------------------------------------------------------------
(* The remaining operations *)

\* a ReadConfig that runs the pass whatever parseFile returned
ReadConfigGoesOn(file) ==
    /\ pc = "idle"
    /\ LET r == parseFile(file, cfg, environ)
       IN  /\ Cardinality(DOMAIN r.env) <= MaxVars
           /\ cfg0' = cfg
           /\ cfgD' = r.cfg
           /\ environ' = r.env
           /\ fileArg' = Some([file |-> file, environ |-> environ])
           /\ repeated' = FALSE
           /\ EnterPass("ReadConfig", r.cfg, FALSE)
    /\ UNCHANGED cfgType

\* ReadConfig(path, cfg): parseFile, and readEnvVars(cfg, false) if it
\* succeeded
ReadConfig(file) ==
    /\ pc = "idle"
    /\ LET r == parseFile(file, cfg, environ)
       IN  /\ Cardinality(DOMAIN r.env) <= MaxVars
           /\ cfg0' = cfg
           /\ cfgD' = r.cfg
           /\ environ' = r.env
           /\ fileArg' = Some([file |-> file, environ |-> environ])
           /\ repeated' = FALSE
           /\ IF r.err /= Nil
              THEN /\ op' = "ReadConfig"
                   /\ cfg' = r.cfg
                   /\ cfg1' = r.cfg
                   /\ err' = r.err
                   /\ log' = <<>>
                   /\ out' = NoOut
                   /\ zeroed' = StillZeroed(r.cfg)
                   /\ UNCHANGED <<pc, update, metaInfo, idx, fullRead>>
              ELSE EnterPass("ReadConfig", r.cfg, FALSE)
    /\ UNCHANGED cfgType

\* the caller has taken the result of the last call: the record of that call
\* is dropped
Forget ==
    /\ update' = FALSE
    /\ metaInfo' = <<>>
    /\ idx' = 1
    /\ err' = Nil
    /\ op' = ""
    /\ cfg0' = cfg
    /\ cfgD' = cfg
    /\ cfg1' = cfg
    /\ log' = <<>>
    /\ out' = NoOut
    /\ zeroed' = StillZeroed(cfg)
    /\ fileArg' = Nil
    /\ repeated' = FALSE

\* a call that runs no pass: the record of the last pass is dropped
NoPass ==
    /\ update' = FALSE
    /\ idx' = 1
    /\ cfg0' = cfg
    /\ cfgD' = cfg
    /\ cfg1' = cfg
    /\ log' = <<>>
    /\ zeroed' = StillZeroed(cfg)
    /\ fileArg' = Nil
    /\ repeated' = FALSE

\* GetDescription(cfg, headerText)
GetDescription(headerText) ==
    /\ pc = "idle"
    /\ NoPass
    /\ op' = "GetDescription"
    /\ metaInfo' = readStructMetadata(cfgType).metas
    /\ LET r == getDescription(cfgType, headerText)
       IN  /\ err' = r.err
           /\ out' = [text |-> r.text, lines |-> r.lines, panic |-> FALSE]
    /\ UNCHANGED <<cfgType, cfg, environ, pc, fullRead>>

\* PrintDescription(cfg); the failing index inside a template function is
\* returned as an error by a toolchain whose text/template recovers from
\* it and is a panic with one that does not
PrintDescription ==
    /\ pc = "idle"
    /\ NoPass
    /\ op' = "PrintDescription"
    /\ metaInfo' = readStructMetadata(cfgType).metas
    /\ LET r == printDescription(cfgType)
       IN  /\ err' = r.err
           /\ \E p \in BOOLEAN :
                 /\ p => (r.err /= Nil /\ r.err[1].msg = "index out of range")
                 /\ out' = [text |-> <<>>, lines |-> r.lines, panic |-> p]
    /\ UNCHANGED <<cfgType, cfg, environ, pc, fullRead>>

\* os.Setenv, called by the program between two calls
Setenv(name, value) ==
    /\ pc = "idle"
    /\ Cardinality((DOMAIN environ) \cup {name}) <= MaxVars
    /\ environ' = [n \in (DOMAIN environ) \cup {name} |->
                     IF n = name THEN value ELSE environ[n]]
    /\ Forget
    /\ UNCHANGED <<cfgType, cfg, pc, fullRead>>

\* os.Unsetenv, called by the program between two calls
Unsetenv(name) ==
    /\ pc = "idle"
    /\ name \in DOMAIN environ
    /\ environ' = [n \in (DOMAIN environ) \ {name} |-> environ[n]]
    /\ Forget
    /\ UNCHANGED <<cfgType, cfg, pc, fullRead>>

\* os.Setenv, called by another goroutine while a pass is in its field loop
SetenvDuringPass(name, value) ==
    /\ pc = "run"
    /\ Cardinality((DOMAIN environ) \cup {name}) <= MaxVars
    /\ environ' = [n \in (DOMAIN environ) \cup {name} |->
                     IF n = name THEN value ELSE environ[n]]
    /\ UNCHANGED <<cfgType, cfg, pc, update, metaInfo, idx, err, op, cfg0, cfgD, cfg1, log,
                   fullRead, out, zeroed, fileArg, repeated>>

\* os.Unsetenv, called by another goroutine while a pass is in its field loop
UnsetenvDuringPass(name) ==
    /\ pc = "run"
    /\ name \in DOMAIN environ
    /\ environ' = [n \in (DOMAIN environ) \ {name} |-> environ[n]]
    /\ UNCHANGED <<cfgType, cfg, pc, update, metaInfo, idx, err, op, cfg0, cfgD, cfg1, log,
                   fullRead, out, zeroed, fileArg, repeated>>

\* a fresh record of the type ("var cfg T") and an empty environment
InitWith(types) ==
    /\ cfgType \in types
    /\ cfg = ZeroOf(cfgType)
    /\ environ = <<>>
    /\ pc = "idle"
    /\ update = FALSE
    /\ metaInfo = <<>>
    /\ idx = 1
    /\ err = Nil
    /\ op = ""
    /\ cfg0 = cfg
    /\ cfgD = cfg
    /\ cfg1 = cfg
    /\ log = <<>>
    /\ fullRead = FALSE
    /\ out = NoOut
    /\ zeroed = {}
    /\ fileArg = Nil
    /\ repeated = FALSE

Init == InitWith(FlatTypes)

Next ==
    \/ ReadEnv
    \/ UpdateEnv
    \/ \E f \in Files(cfgType) : ReadConfig(f)
    \/ FieldStep
    \/ \E n \in EnvNames(cfgType), v \in EnvValues(cfgType) : Setenv(n, v)
    \/ \E n \in EnvNames(cfgType) : Unsetenv(n)

\* the passes and the description calls
NextDescr ==
    \/ Next
    \/ \E h \in {Nil, Some(<<"H", ":">>)} : GetDescription(h)
    \/ PrintDescription

Spec == Init /\ [][Next]_vars

\* the same program on the nested record types
InitNested == InitWith(NestedTypes)

SpecNested == InitNested /\ [][Next]_vars

\* the same program on a record whose fields take each branch of parseValue
InitKinds == InitWith(KindTypes)

SpecKinds == InitKinds /\ [][Next]_vars

\* the same program on records with a sequence, mapping or unsupported field
InitShapes == InitWith(ShapeTypes)

SpecShapes == InitShapes /\ [][Next]_vars

\* the passes and the description calls on the edge-case roots
InitDescr == InitWith(DescrTypes)

SpecDescr == InitDescr /\ [][NextDescr]_vars

\* the same program on records with a timestamp field, alone and in containers
InitTimes == InitWith(TimesTypes)

SpecTimes == InitTimes /\ [][Next]_vars

\* the same program on a record that is read from files of every kind
InitStored == InitWith(StoredTypes)

SpecStored == InitStored /\ [][Next]_vars

\* the same program on a record with groups at two depths
InitTree == InitWith(TreeTypes)

SpecTree == InitTree /\ [][Next]_vars

\* the passes and the description calls on records with the same fields in
\* different orders
InitNumbers == InitWith(NumberTypes)

SpecNumbers == InitNumbers /\ [][NextDescr]_vars

\* the same program on records with one field of a built-in shape
InitScalars == InitWith(ScalarTypes)

SpecScalars == InitScalars /\ [][Next]_vars

\* the passes with another goroutine that changes the environment while a
\* pass is in its field loop
NextRace ==
    \/ Next
    \/ \E n \in EnvNames(cfgType), v \in EnvValues(cfgType) : SetenvDuringPass(n, v)
    \/ \E n \in EnvNames(cfgType) : UnsetenvDuringPass(n)

InitRace == InitWith(PairTypes)

SpecRace == InitRace /\ [][NextRace]_vars

\* the same program on records whose variables may be set to the empty string
InitBlank == InitWith(BlankTypes)

SpecBlank == InitBlank /\ [][Next]_vars

TypeOK == pc \in {"idle", "run"}

----------------------------------------------------------------------------
(* Vocabulary of the properties *)

PassOps == {"ReadEnv", "UpdateEnv", "ReadConfig"}

\* the last call has returned
Done == pc = "idle" /\ op \in PassOps

\* the log entries of the field loop: entry i is about metaInfo[i]
FieldLog == SelectSeq(log, LAMBDA e : e.what /= "Update")

\* some source variable of the field is set
Present(m) == \E k \in 1..Len(m.envList) : m.envList[k] \in DOMAIN environ

\* k is the position of the first source name of the field that is set
FirstPresent(m, k) ==
    /\ m.envList[k] \in DOMAIN environ
    /\ \A j \in 1..(k - 1) : m.envList[j] \notin DOMAIN environ

\* the field's value when the field loop started, and now
Before(m) == GetAt(cfg1, m.fieldValue)

Now(m) == GetAt(cfg, m.fieldValue)

\* the field held the zero value of its type when the field loop started
WasZero(m) == Before(m) = ZeroOf(m.fieldType)

\* the value coercion makes of a raw string for the field
Coerced(m, raw) == parseValue(m.fieldType, Before(m), raw, m.separator, m.layout).val

----------------------------------------------------------------------------
(* C1 *)

\* C1: whenever a pass processes a field (it is not passed over by the
\* update-only filter), the raw value it uses is the value of the first of
\* the field's source names, in declaration order, that is set in the
\* environment, and a successful coercion leaves the field holding the
\* coercion of that value.
C1_FirstPresentNameWins ==
    \A i \in 1..Len(FieldLog) :
        LET e == FieldLog[i]
            m == metaInfo[i]
        IN  e.what /= "skip" =>
              \A k \in 1..Len(m.envList) :
                 FirstPresent(m, k) =>
                    /\ e.what \in {"set", "fail"}
                    /\ e.src = "env"
                    /\ e.raw = Some(environ[m.envList[k]])
                    /\ (e.what = "set" => Now(m) = Coerced(m, environ[m.envList[k]]))

\* an update-only pass has set a field from A while its alternate B holds a
\* different value
C1_Witness ==
    /\ Done /\ op = "UpdateEnv" /\ err = Nil
    /\ \E i \in 1..Len(FieldLog) :
          /\ metaInfo[i].envList = <<A, B>>
          /\ A \in DOMAIN environ /\ B \in DOMAIN environ
          /\ environ[A] = <<"0">> /\ environ[B] = <<"1">>
          /\ FieldLog[i].what = "set"
          /\ Now(metaInfo[i]) = 0 /\ Before(metaInfo[i]) # 0

----------------------------------------------------------------------------
(* C2 *)

----------------------------------------------------------------------------
(* C3 *)

\* C3: after a successful ReadConfig every field follows environment over
\* file over default: a field with a source variable set holds the coercion
\* of that variable's value whatever the file stored; otherwise a field that
\* was non-zero after decoding (and after the root's Update method, if it has
\* one) keeps that value; otherwise it holds the coercion of its default, or
\* stays zero if it has none.  Without an Update method the value at the
\* start of the field loop is the one the decoder left.
C3_EnvOverFileOverDefault ==
    (Done /\ op = "ReadConfig" /\ err = Nil) =>
        \A i \in 1..Len(metaInfo) :
            LET m == metaInfo[i]
            IN  /\ \A k \in 1..Len(m.envList) :
                      FirstPresent(m, k) => Now(m) = Coerced(m, environ[m.envList[k]])
                /\ (~Present(m) /\ ~WasZero(m)) => Now(m) = Before(m)
                /\ (~Present(m) /\ WasZero(m) /\ m.defValue /= Nil)
                      => Now(m) = Coerced(m, m.defValue[1])
                /\ (~Present(m) /\ WasZero(m) /\ m.defValue = Nil) => Now(m) = Before(m)
                /\ cfgType.updater = "" => Before(m) = GetAt(cfgD, m.fieldValue)

\* ReadConfig decoded a file that stores 5 in Second while A is set to "1":
\* Second holds 1, and First, which neither file nor environment names,
\* holds its default
C3_Witness ==
    /\ Done /\ op = "ReadConfig" /\ err = Nil
    /\ cfg0.Second = 0 /\ cfgD.Second = 5
    /\ A \in DOMAIN environ /\ environ[A] = <<"1">> /\ C \notin DOMAIN environ
    /\ \E i \in 1..Len(metaInfo) : /\ metaInfo[i].fieldName = "Second"
                                     /\ Len(metaInfo[i].envList) > 0
                                     /\ metaInfo[i].envList[1] = A
    /\ cfg.Second = 1 /\ cfg0.First = 0 /\ cfg.First = 1

----------------------------------------------------------------------------
(* C4 *)

\* C4: when a pass processes a required field that declares no default while
\* none of its source variables is set and its value is zero, the pass ends
\* there with an error naming that field; the field is not written and every
\* field set earlier in the pass keeps the value the pass gave it.
C4_RequiredFieldFailsPass ==
    \A i \in 1..Len(FieldLog) :
        LET e == FieldLog[i]
            m == metaInfo[i]
        IN  (e.what /= "skip" /\ m.required /\ m.defValue = Nil /\ ~Present(m) /\ WasZero(m)) =>
              /\ e.what = "required"
              /\ i = Len(FieldLog)
              /\ pc = "idle"
              /\ err /= Nil /\ err[1].msg = "required" /\ err[1].field = m.fieldName
              /\ Now(m) = Before(m)
              /\ \A j \in 1..(i - 1) :
                    FieldLog[j].what = "set" =>
                        Now(metaInfo[j]) = Coerced(metaInfo[j], FieldLog[j].raw[1])

\* a pass has set First from C and then failed on the required field Second
C4_Witness ==
    /\ Done /\ err /= Nil /\ err[1].msg = "required" /\ err[1].field = "Second"
    /\ Len(FieldLog) = 2
    /\ metaInfo[2].required /\ metaInfo[2].defValue = Nil
    /\ FieldLog[1].what = "set" /\ FieldLog[1].src = "env"
    /\ cfg0.First = 1 /\ cfg.First = 0

----------------------------------------------------------------------------
(* C5 *)

\* C5 as claimed: the required flag fails a pass only when no source variable
\* is set and no default is declared and the value is zero; a required zero
\* field with a default and no variable set is populated from the default.
C5_Original ==
    \A i \in 1..Len(FieldLog) :
        LET e == FieldLog[i]
            m == metaInfo[i]
        IN  e.what /= "skip" =>
              /\ e.what = "required" => (~Present(m) /\ m.defValue = Nil /\ WasZero(m))
              /\ (m.required /\ m.defValue /= Nil /\ ~Present(m) /\ WasZero(m))
                    => (e.what \in {"set", "fail"} /\ e.src = "default")

\* C5 as amended: a processed field fails the pass on its required flag
\* exactly when no source variable is set and its value is zero, default or
\* no default; a required field is never populated from its default.
C5_RequiredIgnoresDefault ==
    \A i \in 1..Len(FieldLog) :
        LET e == FieldLog[i]
            m == metaInfo[i]
        IN  e.what /= "skip" =>
              /\ e.what = "required" <=> (m.required /\ ~Present(m) /\ WasZero(m))
              /\ e.what = "required" =>
                    (pc = "idle" /\ err /= Nil /\ err[1].msg = "required"
                        /\ err[1].field = m.fieldName /\ Now(m) = Before(m))
              /\ m.required => ~(e.what \in {"set", "fail"} /\ e.src = "default")

\* a pass has failed on a required field that declares a default
C5_Witness ==
    /\ Done /\ err /= Nil /\ err[1].msg = "required"
    /\ \E i \in 1..Len(FieldLog) :
          /\ FieldLog[i].what = "required"
          /\ metaInfo[i].required /\ metaInfo[i].defValue = Some(<<"1">>)
          /\ Now(metaInfo[i]) = 0

----------------------------------------------------------------------------
(* C6 *)

\* C6: when UpdateEnv returns on a record that a full pass had read, every
\* field not marked updatable holds the value it had when the field loop
\* started, which is the value it had when UpdateEnv was called unless the
\* root has an Update method; and if UpdateEnv returns no error, every
\* updatable field with a source variable set holds the coercion of that
\* variable's current value.
C6_UpdateEnvScope ==
    (Done /\ op = "UpdateEnv" /\ fullRead) =>
        \A i \in 1..Len(metaInfo) :
            LET m == metaInfo[i]
            IN  /\ ~m.updatable =>
                      /\ Now(m) = Before(m)
                      /\ cfgType.updater = "" => Now(m) = GetAt(cfg0, m.fieldValue)
                /\ (err = Nil /\ m.updatable) =>
                      \A k \in 1..Len(m.envList) :
                          FirstPresent(m, k) => Now(m) = Coerced(m, environ[m.envList[k]])

\* after a full pass both variables were changed: UpdateEnv gave the
\* updatable Second the new value and left First, whose variable now reads
\* "1", at 0
C6_Witness ==
    /\ Done /\ op = "UpdateEnv" /\ fullRead /\ err = Nil
    /\ cfgType.updater = ""
    /\ metaInfo[1].fieldName = "First" /\ ~metaInfo[1].updatable
    /\ metaInfo[2].updatable /\ metaInfo[2].envList = <<A>>
    /\ C \in DOMAIN environ /\ environ[C] = <<"1">> /\ cfg.First = 0
    /\ A \in DOMAIN environ /\ environ[A] = <<"1">> /\ cfg0.Second = 0 /\ cfg.Second = 1

----------------------------------------------------------------------------
(* C9 *)

\* ReadConfig returned from parseFile with an error: readEnvVars never ran
FileFailed ==
    /\ op = "ReadConfig" /\ err /= Nil
    /\ err[1].msg \in {"open", "config file parsing error",
                       "file format doesn't supported by the parser"}

\* C9: if the root has an Update method, every pass (full or update-only)
\* calls it once, on the record as it was before any field was written; if
\* it fails the pass returns its error and populates nothing; if it succeeds,
\* every field the pass then processes with a source variable set takes the
\* variable's value, whatever Update stored in it.
C9_UpdateHookFirst ==
    (op \in PassOps /\ cfgType.updater /= "" /\ ~FileFailed) =>
        /\ Len(log) >= 1 /\ log[1].what = "Update"
        /\ \A k \in 2..Len(log) : log[k].what /= "Update"
        /\ cfg1 = Update(cfgType, cfgD).cfg
        /\ cfgType.updater = "fail" =>
              (pc = "idle" /\ err = Err("test", <<>>) /\ Len(log) = 1 /\ cfg = cfgD)
        /\ cfgType.updater /= "fail" =>
              \A i \in 1..Len(FieldLog) :
                  LET e == FieldLog[i]
                      m == metaInfo[i]
                  IN  e.what /= "skip" =>
                        \A k \in 1..Len(m.envList) :
                            FirstPresent(m, k) =>
                               /\ e.src = "env" /\ e.raw = Some(environ[m.envList[k]])
                               /\ e.what = "set" => Now(m) = Coerced(m, environ[m.envList[k]])

\* Update stored 7 in Second, then the pass replaced it by the value of A
C9_Witness ==
    /\ Done /\ err = Nil /\ cfgType.updater = "set"
    /\ log[1].what = "Update"
    /\ cfgD.Second = 0 /\ cfg1.Second = UpdateValue
    /\ A \in DOMAIN environ /\ environ[A] = <<"1">>
    /\ cfg.Second = 1

----------------------------------------------------------------------------
(* C7 *)

\* the field named n of the struct type t
FieldOf(t, n) == CHOOSE f \in {t.fields[i] : i \in 1..Len(t.fields)} : f.name = n

RECURSIVE ExpectedNames(_, _)
\* the names a field at a path below the struct type t should answer to:
\* the names it declares, each behind the prefix tags of the groups on the
\* path, outermost first
ExpectedNames(t, path) ==
    LET f == FieldOf(t, Head(path))
    IN  IF Len(path) = 1
        THEN IF TagEnv \in DOMAIN f.tag /\ f.tag[TagEnv] /= <<>>
             THEN Split(f.tag[TagEnv], <<",">>) ELSE <<>>
        ELSE LET p == IF TagEnvPrefix \in DOMAIN f.tag THEN f.tag[TagEnvPrefix] ELSE <<>>
                 rest == ExpectedNames(f.type, Tail(path))
             IN  [i \in 1..Len(rest) |-> p \o rest[i]]

RECURSIVE LeafPaths(_)
\* the paths of the leaf fields below the struct type t
LeafPaths(t) ==
    UNION { IF t.fields[i].type.kind = "struct" /\ t.fields[i].type.name \notin validStructs
            THEN { <<t.fields[i].name>> \o q : q \in LeafPaths(t.fields[i].type) }
            ELSE { <<t.fields[i].name>> } : i \in 1..Len(t.fields) }

\* C7: once a pass has read the metadata, there is one entry per leaf field,
\* at any depth, and its names are the declared names behind the prefixes
\* of its ancestor groups, outermost first, each prefix once, a group
\* without prefix tag adding nothing and a root field having none; these
\* are the names that are described, and the names that are looked up: a
\* processed field takes the value of the first of them that is set.
C7_PrefixedNames ==
    (op \in PassOps /\ ~FileFailed) =>
        /\ {metaInfo[i].fieldValue : i \in 1..Len(metaInfo)} = LeafPaths(cfgType)
        /\ \A i \in 1..Len(metaInfo) :
              metaInfo[i].envList = ExpectedNames(cfgType, metaInfo[i].fieldValue)
        /\ {describedEnvs(metaInfo)[n] : n \in 1..Len(describedEnvs(metaInfo))}
              = UNION { {ExpectedNames(cfgType, q)[k] : k \in 1..Len(ExpectedNames(cfgType, q))} :
                          q \in LeafPaths(cfgType) }
        /\ \A i \in 1..Len(FieldLog) :
              LET e == FieldLog[i]
                  m == metaInfo[i]
                  names == ExpectedNames(cfgType, m.fieldValue)
              IN  e.what /= "skip" =>
                    \A k \in 1..Len(names) :
                        (/\ names[k] \in DOMAIN environ
                         /\ \A j \in 1..(k - 1) : names[j] \notin DOMAIN environ) =>
                            /\ e.what \in {"set", "fail"} /\ e.src = "env"
                            /\ e.raw = Some(environ[names[k]])
                            /\ e.what = "set" => Now(m) = Coerced(m, environ[names[k]])

\* H and RDX are set: the root's Name and the unprefixed group's Host take
\* H, the prefixed group's Host does not, and Debug is set two groups down
\* behind "R" and "D" only
C7_Witness ==
    /\ Done /\ err = Nil /\ cfgType.name = "Config"
    /\ DOMAIN environ = {<<"H">>, <<"R", "D", "X">>}
    /\ cfg.Name = <<"1">> /\ cfg.Default.Host = <<"1">> /\ cfg.ReadOnly.Host = <<>>
    /\ cfg.ReadOnly.Logging.Debug /\ ~cfg.Default.Logging.Debug
    /\ \E i \in 1..Len(metaInfo) :
          /\ metaInfo[i].fieldValue = <<"ReadOnly", "Logging", "Debug">>
          /\ metaInfo[i].envList = << <<"R", "D", "X">> >>

----------------------------------------------------------------------------
(* C8 *)

\* the levels of the dispatch, in the claimed order
Levels == <<"validStructs", "TextUnmarshaler", "Setter", "kind">>

\* whether a level applies to a target of type t
Applies(t, level) ==
    CASE level = "validStructs"    -> t.name \in validStructs
      [] level = "TextUnmarshaler" -> t.text
      [] level = "Setter"          -> t.setter
      [] level = "kind"            -> TRUE

\* the first level that applies
FirstLevel(t) ==
    Levels[CHOOSE i \in 1..Len(Levels) :
              Applies(t, Levels[i]) /\ \A j \in 1..(i - 1) : ~Applies(t, Levels[j])]

\* what the parser of a level makes of a raw value for the field of meta m
ParsedAt(level, m, raw) ==
    CASE level = "validStructs"    -> structParser(m.fieldType, raw, m.layout)
      [] level = "TextUnmarshaler" -> UnmarshalText(m.fieldType, raw)
      [] level = "Setter"          -> SetValue(m.fieldType, raw)
      [] level = "kind"            ->
            LET r == parseValue(Ty(m.fieldType.kind, "", m.fieldType.bits),
                                ZeroOf(m.fieldType), raw, m.separator, m.layout)
            IN  [err |-> r.err, val |-> r.val]

\* C8: every value a pass coerces is handled by the first level that applies
\* to the field's type, in the order registry, TextUnmarshaler, Setter,
\* kind: the field is set exactly when that level's parser accepts the
\* value, and then holds that parser's result; otherwise the pass fails
\* with that parser's error.
C8_DispatchOrder ==
    \A i \in 1..Len(FieldLog) :
        LET e == FieldLog[i]
            m == metaInfo[i]
        IN  e.what \in {"set", "fail"} =>
              LET lv == FirstLevel(m.fieldType)
                  r  == ParsedAt(lv, m, e.raw[1])
              IN  /\ e.by = lv
                  /\ (e.what = "set") <=> (r.err = Nil)
                  /\ e.what = "set" => Now(m) = r.val
                  /\ e.what = "fail" =>
                        (err /= Nil /\ err[1].msg = "parsing" /\ err[1].inner = r.err
                            /\ Now(m) = Before(m))

\* the time.Time field was set through the registry, from a value in its
\* layout that UnmarshalText refuses, and the field with both methods was
\* set by UnmarshalText, not by SetValue
C8_Witness ==
    /\ Done /\ err = Nil /\ cfgType.name = "Kinds"
    /\ DOMAIN environ = {A, C}
    /\ environ[A] = <<"5">> /\ environ[C] = <<"5">>
    /\ UnmarshalText(TTime, <<"5">>).err /= Nil
    /\ cfg.Time = <<"5">>
    /\ cfg.Both = TextPrefix \o <<"5">>
    /\ FieldLog[1].by = "validStructs" /\ FieldLog[3].by = "TextUnmarshaler"

----------------------------------------------------------------------------
(* C10 *)

RECURSIVE GroupPaths(_)
\* the paths of the nested groups below the struct type t
GroupPaths(t) ==
    UNION { IF t.fields[i].type.kind = "struct" /\ t.fields[i].type.name \notin validStructs
            THEN { <<t.fields[i].name>> }
                 \cup { <<t.fields[i].name>> \o q : q \in GroupPaths(t.fields[i].type) }
            ELSE {} : i \in 1..Len(t.fields) }

RECURSIVE TypeAt(_, _)
\* the type of the field at a path below the struct type t
TypeAt(t, path) ==
    IF path = <<>> THEN t ELSE TypeAt(FieldOf(t, Head(path)).type, Tail(path))

\* C10 as claimed: a pass that ran to its end without error has called Update
\* on every nested group whose type has an Update method.
C10_FieldUpdaterInvoked ==
    (Done /\ err = Nil /\ ~FileFailed) =>
        \A g \in GroupPaths(cfgType) :
            TypeAt(cfgType, g).updater /= "" =>
                \E k \in 1..Len(log) : log[k].what = "Update" /\ log[k].field = g

----------------------------------------------------------------------------
(* C11 *)

\* C11: a pass ends at the first field that fails, with that field's error
\* alone: a failing entry is the last entry of the log and the pass has
\* returned; the fields before it hold what the pass wrote (or were left
\* alone), and the failing field and every field after it hold the value
\* they had when the field loop started, which is the value before the pass
\* unless the root has an Update method.
C11_FirstErrorStops ==
    \A n \in 1..Len(FieldLog) :
        FieldLog[n].what \in {"fail", "required"} =>
            /\ n = Len(FieldLog) /\ pc = "idle"
            /\ Len(err) = 1
            /\ err[1].msg = (IF FieldLog[n].what = "fail" THEN "parsing" ELSE "required")
            /\ err[1].field = metaInfo[n].fieldName
            /\ \A j \in 1..(n - 1) :
                  /\ FieldLog[j].what \in {"set", "none", "skip"}
                  /\ FieldLog[j].what = "set" =>
                        Now(metaInfo[j]) = Coerced(metaInfo[j], FieldLog[j].raw[1])
                  /\ FieldLog[j].what /= "set" => Now(metaInfo[j]) = Before(metaInfo[j])
            /\ \A j \in n..Len(metaInfo) :
                  /\ Now(metaInfo[j]) = Before(metaInfo[j])
                  /\ cfgType.updater = "" =>
                        Now(metaInfo[j]) = GetAt(cfgD, metaInfo[j].fieldValue)

\* both variables hold text that is no number: the pass failed on First and
\* Second, whose variable is just as bad, was never looked at
C11_Witness ==
    /\ Done /\ err /= Nil /\ err[1].msg = "parsing" /\ err[1].field = "First"
    /\ Len(FieldLog) = 1 /\ Len(metaInfo) = 2
    /\ metaInfo[2].envList = <<A>> /\ ~metaInfo[2].required
    /\ DOMAIN environ = {A, C}
    /\ environ[C] = <<"x">> /\ environ[A] = <<"x">>
    /\ cfg.Second = 0

----------------------------------------------------------------------------
(* C12 *)

\* C12 as claimed: the error of a failed coercion carries the field's name
\* and the name of the variable whose value was coerced, the alternate when
\* the alternate supplied it, and no variable name when the value was the
\* default.
C12_Original ==
    \A i \in 1..Len(FieldLog) :
        LET e == FieldLog[i]
            m == metaInfo[i]
        IN  e.what = "fail" =>
              /\ err /= Nil /\ err[1].msg = "parsing" /\ err[1].field = m.fieldName
              /\ e.src = "env" =>
                    \E k \in 1..Len(m.envList) : FirstPresent(m, k) /\ err[1].env = m.envList[k]
              /\ e.src = "default" => err[1].env = <<>>

\* C12 as amended: the error of a failed coercion carries the field's name,
\* the parser's error, and the first declared source name of the field,
\* whichever name supplied the value and also when the value was the
\* default; the variable name is empty only for a field without names.
C12_ErrorNamesPrimary ==
    \A i \in 1..Len(FieldLog) :
        LET e == FieldLog[i]
            m == metaInfo[i]
        IN  e.what = "fail" =>
              /\ err /= Nil /\ err[1].msg = "parsing" /\ err[1].field = m.fieldName
              /\ err[1].inner /= Nil
              /\ err[1].inner = parseValue(m.fieldType, Before(m), e.raw[1],
                                           m.separator, m.layout).err
              /\ err[1].env = (IF Len(m.envList) > 0 THEN m.envList[1] ELSE <<>>)

\* only the alternate B is set, to text that is no number: the error names A
C12_Witness ==
    /\ Done /\ err /= Nil /\ err[1].msg = "parsing" /\ err[1].field = "Second"
    /\ metaInfo[2].envList = <<A, B>>
    /\ A \notin DOMAIN environ /\ B \in DOMAIN environ /\ environ[B] = <<"x">>
    /\ FieldLog[2].what = "fail" /\ FieldLog[2].src = "env" /\ FieldLog[2].raw = Some(<<"x">>)
    /\ err[1].env = A

----------------------------------------------------------------------------
(* C13 *)

\* the positions of the character c in the string str
CutsOf(str, c) == {i \in 1..Len(str) : str[i] = c}

\* piece number n of str cut at every occurrence of the character c
PieceOf(str, c, n) ==
    LET cuts == CutsOf(str, c)
        from == IF n = 1 THEN 0
                ELSE CHOOSE p \in cuts : Cardinality({q \in cuts : q < p}) = n - 2
        to   == IF n = Cardinality(cuts) + 1 THEN Len(str) + 1
                ELSE CHOOSE p \in cuts : Cardinality({q \in cuts : q < p}) = n - 1
    IN  SubSeq(str, from + 1, to - 1)

\* whether a type is a sequence whose elements are not bytes
IsList(t) == t.kind = "slice" /\ ~(t.elem[1].kind = "uint" /\ t.elem[1].bits = 8)

\* coercion of one piece into the type t, starting from t's zero value
CoerceInto(t, piece) == parseValue(t, ZeroOf(t), piece, <<",">>, Nil)

\* C13: when a pass coerces a raw string into a sequence field whose
\* elements are not bytes: a blank string (empty after trimming white
\* space) gives an empty sequence that is not nil; any other string gives
\* one element per piece of the string cut at the field's separator, element
\* i being the coercion of piece i, provided every piece can be coerced (the
\* coercion fails otherwise).
C13_SequencePieces ==
    \A i \in 1..Len(FieldLog) :
        LET e == FieldLog[i]
            m == metaInfo[i]
        IN  (e.what \in {"set", "fail"} /\ IsList(m.fieldType) /\ Len(m.separator) = 1) =>
              LET raw == e.raw[1]
                  et  == m.fieldType.elem[1]
                  n   == Cardinality(CutsOf(raw, m.separator[1])) + 1
              IN  IF TrimSpace(raw) = <<>>
                  THEN e.what = "set" /\ Now(m) = [nil |-> FALSE, elems |-> <<>>]
                  ELSE /\ e.what = "set" <=>
                             \A k \in 1..n : CoerceInto(et, PieceOf(raw, m.separator[1], k)).err = Nil
                       /\ e.what = "set" =>
                             /\ ~Now(m).nil
                             /\ Len(Now(m).elems) = n
                             /\ \A k \in 1..n :
                                   Now(m).elems[k]
                                      = CoerceInto(et, PieceOf(raw, m.separator[1], k)).val

\* "1;2" was coerced into a []int8 with separator ";": the elements 1, 2
C13_Witness ==
    /\ Done /\ err = Nil
    /\ cfgType.name = "Shapes" /\ cfgType.fields[1].type = SliceOf(TInt8)
    /\ metaInfo[1].separator = <<";">>
    /\ A \in DOMAIN environ /\ environ[A] = <<"1", ";", "2">>
    /\ cfg.Item = [nil |-> FALSE, elems |-> <<1, 2>>]

----------------------------------------------------------------------------
(* C14 *)

HasColon(pair) == CutsOf(pair, ":") /= {}

\* the text before and after the first ":" of a pair
KeyText(pair) ==
    SubSeq(pair, 1, (CHOOSE c \in CutsOf(pair, ":") : \A d \in CutsOf(pair, ":") : c <= d) - 1)

ValueText(pair) ==
    SubSeq(pair, (CHOOSE c \in CutsOf(pair, ":") : \A d \in CutsOf(pair, ":") : c <= d) + 1,
           Len(pair))

\* a pair that can be added to a mapping of type t
PairOk(t, pair) ==
    /\ HasColon(pair)
    /\ CoerceInto(t.key[1], KeyText(pair)).err = Nil
    /\ CoerceInto(t.elem[1], ValueText(pair)).err = Nil

\* C14: when a pass coerces a non-blank raw string into a mapping field, the
\* string is cut at the field's separator into pairs and each pair at its
\* first ":", so that the value text may contain ":"; if any pair has no
\* ":" the coercion fails and the field keeps its value, and the error
\* names the pair when it is the first pair that cannot be added; if the
\* field is set, every pair was added, a later pair replacing an earlier one
\* with the same key.
C14_MappingPairs ==
    \A i \in 1..Len(FieldLog) :
        LET e == FieldLog[i]
            m == metaInfo[i]
        IN  (/\ e.what \in {"set", "fail"} /\ m.fieldType.kind = "map"
             /\ Len(m.separator) = 1 /\ TrimSpace(e.raw[1]) /= <<>>) =>
              LET raw == e.raw[1]
                  t   == m.fieldType
                  n   == Cardinality(CutsOf(raw, m.separator[1])) + 1
                  P(k) == PieceOf(raw, m.separator[1], k)
              IN  /\ (\E k \in 1..n : ~HasColon(P(k))) =>
                         (e.what = "fail" /\ Now(m) = Before(m))
                  /\ \A k \in 1..n :
                         (~HasColon(P(k)) /\ \A j \in 1..(k - 1) : PairOk(t, P(j))) =>
                            (err /= Nil /\ err[1].inner = Err("invalid map item", P(k)))
                  /\ e.what = "set" <=> \A k \in 1..n : PairOk(t, P(k))
                  /\ e.what = "set" =>
                         /\ ~Now(m).nil
                         /\ DOMAIN Now(m).kv
                               = {CoerceInto(t.key[1], KeyText(P(k))).val : k \in 1..n}
                         /\ \A k \in 1..n :
                               (\A j \in (k + 1)..n : KeyText(P(j)) /= KeyText(P(k))) =>
                                  Now(m).kv[CoerceInto(t.key[1], KeyText(P(k))).val]
                                     = CoerceInto(t.elem[1], ValueText(P(k))).val

\* "a:1,bad" was coerced into a map[string]int8: the error names "bad" and
\* the field is still nil
C14_Witness ==
    /\ Done /\ err /= Nil /\ err[1].msg = "parsing"
    /\ err[1].inner = Err("invalid map item", <<"b", "a", "d">>)
    /\ cfgType.name = "Shapes" /\ cfgType.fields[1].type = MapOf(TString, TInt8)
    /\ metaInfo[1].separator = <<",">>
    /\ A \in DOMAIN environ /\ environ[A] = <<"a", ":", "1", ",", "b", "a", "d">>
    /\ cfg.Item = [nil |-> TRUE, kv |-> <<>>]

----------------------------------------------------------------------------
(* C15 *)

IsBytes(t) == t.kind = "slice" /\ t.elem[1].kind = "uint" /\ t.elem[1].bits = 8

\* C15: when a pass coerces a raw string into a byte-sequence field, the
\* coercion succeeds and the field holds the characters of the string, in
\* order and all of them, whatever the separator is and whether or not the
\* string contains it, is empty or is blank.
C15_BytesVerbatim ==
    \A i \in 1..Len(FieldLog) :
        LET e == FieldLog[i]
            m == metaInfo[i]
        IN  (e.what \in {"set", "fail"} /\ IsBytes(m.fieldType)) =>
              /\ e.what = "set"
              /\ ~Now(m).nil
              /\ Len(Now(m).elems) = Len(e.raw[1])
              /\ \A k \in 1..Len(e.raw[1]) : Now(m).elems[k] = e.raw[1][k]

\* "1,2" was coerced into a []byte with separator ",": three bytes
C15_Witness ==
    /\ Done /\ err = Nil
    /\ cfgType.name = "Shapes" /\ cfgType.fields[1].type = SliceOf(TUint8)
    /\ metaInfo[1].separator = <<",">>
    /\ A \in DOMAIN environ /\ environ[A] = <<"1", ",", "2">>
    /\ cfg.Item = [nil |-> FALSE, elems |-> <<"1", ",", "2">>]

----------------------------------------------------------------------------
(* C16 *)

\* a shape with no parser: not in the registry, no UnmarshalText, no
\* SetValue, and a kind the switch has no case for
NoParser(t) ==
    /\ t.name \notin validStructs /\ ~t.text /\ ~t.setter
    /\ t.kind \notin {"string", "bool", "int", "uint", "slice", "map"}

\* the first pair of a raw string for the mapping field of meta m
FirstPair(m, raw) == PieceOf(raw, m.separator[1], 1)

\* whether coercing raw into the field of meta m coerces a text into a
\* target without parser before anything else fails: the field itself, the
\* first element of a non-blank sequence, or the key or (after a good key)
\* the value of the first pair of a non-blank mapping
ReachesNoParser(m, raw) ==
    LET t == m.fieldType
    IN  \/ NoParser(t)
        \/ /\ IsList(t) /\ NoParser(t.elem[1]) /\ TrimSpace(raw) /= <<>>
        \/ /\ t.kind = "map" /\ TrimSpace(raw) /= <<>> /\ HasColon(FirstPair(m, raw))
           /\ \/ NoParser(t.key[1])
              \/ /\ NoParser(t.elem[1])
                 /\ CoerceInto(t.key[1], KeyText(FirstPair(m, raw))).err = Nil

\* whether a type has a part without parser
HasNoParserPart(t) ==
    \/ NoParser(t)
    \/ t.kind = "slice" /\ NoParser(t.elem[1])
    \/ t.kind = "map" /\ (NoParser(t.key[1]) \/ NoParser(t.elem[1]))

\* C16: when a pass coerces a raw string into a target without parser, be
\* it the field or an element, key or value of a sequence or mapping field,
\* the coercion returns the unsupported-type error and the field keeps its
\* value; a field with such a part is set only from a blank string, to the
\* empty container, in which case no element is coerced at all.
C16_UnsupportedShape ==
    \A i \in 1..Len(FieldLog) :
        LET e == FieldLog[i]
            m == metaInfo[i]
        IN  (e.what \in {"set", "fail"} /\ Len(m.separator) = 1) =>
              /\ ReachesNoParser(m, e.raw[1]) =>
                    /\ e.what = "fail"
                    /\ err /= Nil /\ err[1].msg = "parsing"
                    /\ err[1].inner = Err("unsupported type", <<>>)
                    /\ Now(m) = Before(m)
              /\ (HasNoParserPart(m.fieldType) /\ e.what = "set") =>
                    /\ TrimSpace(e.raw[1]) = <<>>
                    /\ m.fieldType.kind = "slice" => Now(m) = [nil |-> FALSE, elems |-> <<>>]
                    /\ m.fieldType.kind = "map" => Now(m) = [nil |-> FALSE, kv |-> <<>>]

\* "1,2" was coerced into a []func(): unsupported type, the field is still nil
C16_Witness ==
    /\ Done /\ err /= Nil /\ err[1].msg = "parsing"
    /\ err[1].inner = Err("unsupported type", <<>>)
    /\ cfgType.name = "Shapes" /\ cfgType.fields[1].type = SliceOf(TFunc)
    /\ A \in DOMAIN environ /\ environ[A] = <<"1", ",", "2">>
    /\ cfg.Item = [nil |-> TRUE, elems |-> <<>>]

----------------------------------------------------------------------------
(* C19 *)

----------------------------------------------------------------------------
(* C17 *)

RECURSIVE Qualifying(_)
\* the paths of the fields of a struct type that a pass can fill: its
\* exported fields, and below an exported group the group's
Qualifying(t) ==
    UNION { LET f == t.fields[i]
            IN  IF ~f.exported THEN {}
                ELSE IF f.type.kind = "struct" /\ f.type.name \notin validStructs
                THEN { <<f.name>> \o q : q \in Qualifying(f.type) }
                ELSE { <<f.name>> } : i \in 1..Len(t.fields) }

\* C17: when ReadEnv, UpdateEnv or GetDescription has returned: for a root
\* that is no struct it returned the wrong-type error, no field was processed
\* and the record is as it was, and GetDescription returned the empty text;
\* for a struct without a field to fill (and without Update method) it
\* returned no error, the metadata list is empty, the record is as it was
\* and GetDescription returned the empty text, whatever header it was given.
C17_RootEdgeCases ==
    (pc = "idle" /\ op \in {"ReadEnv", "UpdateEnv", "GetDescription"}) =>
        /\ cfgType.kind /= "struct" =>
              /\ err /= Nil /\ err[1].msg = "wrong type"
              /\ metaInfo = <<>> /\ log = <<>>
              /\ cfg = cfg0
              /\ out.text = <<>> /\ out.lines = <<>>
        /\ (cfgType.kind = "struct" /\ Qualifying(cfgType) = {} /\ cfgType.updater = "") =>
              /\ err = Nil
              /\ metaInfo = <<>> /\ log = <<>>
              /\ cfg = cfg0
              /\ out.text = <<>> /\ out.lines = <<>>

\* ReadEnv was called on an int8 with the variable A set: wrong type, and
\* the value is as it was
C17_Witness ==
    /\ cfgType = TInt8 /\ pc = "idle" /\ op = "ReadEnv"
    /\ err /= Nil /\ err[1].msg = "wrong type"
    /\ A \in DOMAIN environ
    /\ cfg = 0

----------------------------------------------------------------------------
(* C18 *)

RECURSIVE HiddenPaths(_, _)
\* the paths of the leaf fields of a struct type that are unexported or lie
\* below an unexported group (hid: an enclosing group is unexported)
HiddenPaths(t, hid) ==
    UNION { LET f == t.fields[i]
                h == hid \/ ~f.exported
            IN  IF f.type.kind = "struct" /\ f.type.name \notin validStructs
                THEN { <<f.name>> \o q : q \in HiddenPaths(f.type, h) }
                ELSE IF h THEN { <<f.name>> } ELSE {} : i \in 1..Len(t.fields) }

\* C18: an unexported leaf field, and every field below an unexported
\* group, has no entry in the metadata list and holds the value it had when
\* the record was created, whatever variables are set, files decoded and
\* passes run, and whatever default or required flag it declares; an error
\* of a field loop is about a field of the metadata list, and a description
\* call breaks off only on a field of that list.
C18_UnexportedUntouched ==
    cfgType.kind = "struct" =>
        /\ \A p \in HiddenPaths(cfgType, FALSE) :
              /\ GetAt(cfg, p) = GetAt(ZeroOf(cfgType), p)
              /\ \A i \in 1..Len(metaInfo) : metaInfo[i].fieldValue /= p
        /\ (err /= Nil /\ err[1].msg \in {"required", "parsing"}) =>
              \E i \in 1..Len(metaInfo) :
                  /\ metaInfo[i].fieldName = err[1].field
                  /\ metaInfo[i].fieldValue \notin HiddenPaths(cfgType, FALSE)
        /\ (out.panic \/ (err /= Nil /\ err[1].msg = "index out of range")) =>
              \E i \in 1..Len(metaInfo) :
                  /\ metaInfo[i].envList = <<>>
                  /\ metaInfo[i].fieldValue \notin HiddenPaths(cfgType, FALSE)

\* ReadEnv has succeeded on a Hidden whose unexported secret is required
\* and has its variable B unset, with C, the variable of server.Host, set:
\* one field was processed, secret and server.Host are still 0
C18_Witness ==
    /\ Done /\ op = "ReadEnv" /\ err = Nil
    /\ cfgType.name = "Hidden" /\ TagEnvRequired \in DOMAIN cfgType.fields[2].tag
    /\ DOMAIN environ = {C} /\ environ[C] = <<"1">>
    /\ Len(FieldLog) = 1 /\ Len(metaInfo) = 1
    /\ cfg.secret = 0 /\ cfg.server.Host = 0

----------------------------------------------------------------------------
(* C20 *)

\* sub occurs in str
Contains(str, sub) ==
    \E j \in 1..(Len(str) - Len(sub) + 1) : SubSeq(str, j, j + Len(sub) - 1) = sub

\* a line of GetDescription is the entry of the name
EntryOf(line, name) ==
    LET head == <<"\n", " ", " ">> \o name \o <<" ">>
    IN  Len(line) >= Len(head) /\ SubSeq(line, 1, Len(head)) = head

\* the number of source names of the first n entries of the metadata list
RECURSIVE NamesUpTo(_)
NamesUpTo(n) == IF n = 0 THEN 0 ELSE NamesUpTo(n - 1) + Len(metaInfo[n].envList)

\* C20: when GetDescription or PrintDescription has returned on a struct, it
\* returned no error and did not break off, it produced as many entries as
\* the descriptors have source names, one for every source name, and the
\* entry of a name that is not the first of its descriptor is marked
\* "alternative to" that first name while the entry of the first is not.
C20_OneEntryPerName ==
    (pc = "idle" /\ op \in {"GetDescription", "PrintDescription"} /\ cfgType.kind = "struct") =>
        /\ err = Nil /\ ~out.panic
        /\ Len(out.lines) = NamesUpTo(Len(metaInfo))
        /\ \A i \in 1..Len(metaInfo) : \A k \in 1..Len(metaInfo[i].envList) :
              \E n \in 1..Len(out.lines) :
                  IF op = "GetDescription"
                  THEN /\ EntryOf(out.lines[n], metaInfo[i].envList[k])
                       /\ Contains(out.lines[n], AlternativeTo \o metaInfo[i].envList[1] \o <<")">>)
                             <=> k > 1
                  ELSE out.lines[n].key = metaInfo[i].envList[k]

\* what C20 says of GetDescription alone
C20_GetDescriptionEntries ==
    (pc = "idle" /\ op = "GetDescription" /\ cfgType.kind = "struct") => C20_OneEntryPerName

----------------------------------------------------------------------------
(* C21 *)

\* the pattern a field declares for its timestamps: its layout tag, or
\* RFC 3339 if it has none
DeclaredLayout(f) ==
    IF TagEnvLayout \in DOMAIN f.tag THEN f.tag[TagEnvLayout] ELSE RFC3339

\* the text has the shape of the pattern
HasShape(layout, text) ==
    /\ Len(text) = Len(layout)
    /\ \A i \in 1..Len(layout) :
          IF layout[i] \in Digits THEN text[i] \in Digits ELSE text[i] = layout[i]

\* every timestamp text of a raw value for a field of type t has the shape
\* of the pattern: the value itself, each piece of a sequence, the value
\* text of each pair of a mapping
TimesHaveShape(t, raw, sep, layout) ==
    LET n == Cardinality(CutsOf(raw, sep)) + 1
    IN  CASE t.kind = "slice" -> \A k \in 1..n : HasShape(layout, PieceOf(raw, sep, k))
          [] t.kind = "map" ->
                \A k \in 1..n : /\ HasShape(<<"a", ":">>, SubSeq(PieceOf(raw, sep, k), 1, 2))
                                /\ HasShape(layout, ValueText(PieceOf(raw, sep, k)))
          [] OTHER -> HasShape(layout, raw)

\* C21: whenever a pass coerces a raw value into a timestamp field, or into
\* a sequence of or a mapping to timestamps, the coercion succeeds exactly
\* if every timestamp text of the value has the shape of the layout the field
\* declares, or of RFC 3339 if the field declares none.
C21_LayoutOverride ==
    \A i \in 1..Len(FieldLog) :
        LET e == FieldLog[i]
            m == metaInfo[i]
            f == FieldOf(cfgType, m.fieldName)
        IN  (e.what \in {"set", "fail"} /\ cfgType.name = "Times") =>
              (e.what = "set"
                 <=> TimesHaveShape(f.type, e.raw[1], m.separator[1], DeclaredLayout(f)))

\* what C21 says of a field that is a timestamp itself
C21_TimestampField ==
    \A i \in 1..Len(FieldLog) :
        (metaInfo[i].fieldType = TTime) => C21_LayoutOverride

----------------------------------------------------------------------------
(* C22 *)

\* the spellings of the dotenv extension among the files
DotenvExts == { <<".","e","n","v">>, <<".","E","n","v">> }

\* C22: while and after ReadConfig runs on a dotenv file that was opened
\* and parsed: every variable of the file is set in the environment to the
\* file's value, whatever it was before, and every other variable is as it
\* was; the decoder has not written the record (also not for content that a
\* structured decoder would store); each field a pass has set holds the
\* coercion of the raw value the pass took from the environment or the
\* default, and the fields it has not reached are as they were when the
\* field loop began.
C22_DotenvGoesToEnvironment ==
    (op = "ReadConfig" /\ fileArg /= Nil /\ fileArg[1].file.ext \in DotenvExts
       /\ fileArg[1].file.exists /\ ~fileArg[1].file.bad) =>
        LET f  == fileArg[1].file
            e0 == fileArg[1].environ
        IN  /\ err = Nil \/ err[1].msg \in {"required", "parsing", "test"}
            /\ DOMAIN environ = (DOMAIN e0) \cup (DOMAIN f.vars)
            /\ \A k \in DOMAIN f.vars : environ[k] = f.vars[k]
            /\ \A k \in (DOMAIN e0) \ (DOMAIN f.vars) : environ[k] = e0[k]
            /\ cfgD = cfg0
            /\ cfgType.updater = "" => cfg1 = cfg0
            /\ \A i \in 1..Len(metaInfo) :
                  IF i <= Len(FieldLog) /\ FieldLog[i].what = "set"
                  THEN /\ Now(metaInfo[i]) = Coerced(metaInfo[i], FieldLog[i].raw[1])
                       /\ FieldLog[i].raw = (IF Present(metaInfo[i])
                                             THEN Some(environ[CHOOSE n \in DOMAIN environ :
                                                          \E k \in 1..Len(metaInfo[i].envList) :
                                                              /\ metaInfo[i].envList[k] = n
                                                              /\ FirstPresent(metaInfo[i], k)])
                                             ELSE metaInfo[i].defValue)
                  ELSE Now(metaInfo[i]) = Before(metaInfo[i])

\* ReadConfig has returned from a .env file that sets A to "1" (and holds
\* a key Second a structured decoder would store) with A set to "0" before:
\* A is "1" now and Second holds 1
C22_Witness ==
    /\ Done /\ op = "ReadConfig" /\ err = Nil /\ cfgType.updater = ""
    /\ fileArg /= Nil /\ fileArg[1].file.ext = <<".","e","n","v">>
    /\ fileArg[1].file.assign /= <<>>
    /\ A \in DOMAIN fileArg[1].environ /\ fileArg[1].environ[A] = <<"0">>
    /\ fileArg[1].file.vars[A] = <<"1">>
    /\ environ[A] = <<"1">>
    /\ cfg0.Second = 0 /\ cfg.Second = 1

----------------------------------------------------------------------------
(* C23 *)

\* the letters of the recognized extensions, capital and small
FoldPairs ==
    { <<"A", "a">>, <<"D", "d">>, <<"E", "e">>, <<"J", "j">>, <<"L", "l">>, <<"M", "m">>,
      <<"N", "n">>, <<"O", "o">>, <<"S", "s">>, <<"T", "t">>, <<"V", "v">>, <<"Y", "y">> }

\* two strings that differ in the case of letters only
SameFold(a, b) ==
    /\ Len(a) = Len(b)
    /\ \A i \in 1..Len(a) : a[i] = b[i] \/ <<a[i], b[i]>> \in FoldPairs \/ <<b[i], a[i]>> \in FoldPairs

RecognizedExts ==
    { <<".","y","a","m","l">>, <<".","y","m","l">>, <<".","j","s","o","n">>,
      <<".","t","o","m","l">>, <<".","e","d","n">>, <<".","e","n","v">> }

\* the file cannot be opened, has no recognized extension, or its decoder fails
FileFails(f) ==
    \/ ~f.exists
    \/ ~\E x \in RecognizedExts : SameFold(f.ext, x)
    \/ f.bad

\* C23: when ReadConfig is called on a file that cannot be opened, whose
\* extension is not a recognized one in any spelling of its letters' case,
\* or that its decoder rejects, ReadConfig has returned an error and has
\* run no pass: the log holds no Update call and no field, the record is as
\* the decoder left it (as it was, if no decoder ran) and the environment
\* is as it was.  On any other file the pass runs.
C23_FileErrorStopsReadConfig ==
    (op = "ReadConfig" /\ fileArg /= Nil) =>
        IF FileFails(fileArg[1].file)
        THEN /\ pc = "idle"
             /\ err /= Nil
             /\ err[1].msg \in {"open", "file format doesn't supported by the parser",
                                "config file parsing error"}
             /\ log = <<>>
             /\ cfg = cfgD
             /\ ~fileArg[1].file.bad => cfg = cfg0
             /\ environ = fileArg[1].environ
        ELSE /\ pc = "run" \/ Len(FieldLog) >= 1
             /\ cfgType.updater /= "" => Len(log) >= 1 /\ log[1].what = "Update"
             /\ err /= Nil => err[1].msg \in {"required", "parsing", "test"}

\* ReadConfig has returned from a .txt file, on a record with an Update
\* method and with defaults, with a variable of the record set: an error, no
\* Update call, and First is 0 still
C23_Witness ==
    /\ pc = "idle" /\ op = "ReadConfig" /\ fileArg /= Nil
    /\ fileArg[1].file.ext = <<".","t","x","t">> /\ fileArg[1].file.exists
    /\ cfgType.updater = "set"
    /\ err /= Nil /\ err[1].msg = "file format doesn't supported by the parser"
    /\ DOMAIN environ /= {}
    /\ log = <<>>
    /\ cfg.First = 0 /\ cfg.Second = 0

----------------------------------------------------------------------------
(* C24 *)

IsGroup(f) == f.type.kind = "struct" /\ f.type.name \notin validStructs

\* the paths of the fields of the struct type t at path pre that are leaves
\* (groups = FALSE) or groups (groups = TRUE), in declaration order
Members(t, pre, groups) ==
    LET picked == SelectSeq(t.fields, LAMBDA f : f.exported /\ (IsGroup(f) <=> groups))
    IN  [i \in 1..Len(picked) |-> Append(pre, picked[i].name)]

RECURSIVE StructAt(_, _)
\* the struct type at a path of group names below the struct type t
StructAt(t, path) ==
    IF path = <<>> THEN t ELSE StructAt(FieldOf(t, Head(path)).type, Tail(path))

RECURSIVE Concat(_)
Concat(seqs) == IF seqs = <<>> THEN <<>> ELSE Head(seqs) \o Concat(Tail(seqs))

RECURSIVE LevelOrder(_, _)
\* breadth-first order, level by level: the leaves of the records of one
\* level (given by their paths, in the order they were found), record by
\* record, and then the same for the groups found in these records
LevelOrder(t, level) ==
    IF level = <<>> THEN <<>>
    ELSE Concat([i \in 1..Len(level) |-> Members(StructAt(t, level[i]), level[i], FALSE)])
           \o LevelOrder(t, Concat([i \in 1..Len(level) |->
                                      Members(StructAt(t, level[i]), level[i], TRUE)]))

\* C24: once a call on a struct has read the metadata, the list holds the
\* leaf fields in breadth-first order: record by record in the order the
\* records were found, the leaves of a record in declaration order and
\* before the fields of its groups, every leaf once; the field loop goes
\* through the fields in this order.
C24_BreadthFirst ==
    (cfgType.kind = "struct" /\ (pc = "run" \/ op \in PassOps) /\ ~FileFailed) =>
        /\ [i \in 1..Len(metaInfo) |-> metaInfo[i].fieldValue] = LevelOrder(cfgType, << <<>> >>)
        /\ \A i, j \in 1..Len(metaInfo) :
              metaInfo[i].fieldValue = metaInfo[j].fieldValue => i = j
        /\ \A i \in 1..Len(FieldLog) : FieldLog[i].field = metaInfo[i].fieldValue

\* a pass on Tree has failed on Last, the root's leaf declared after its
\* groups, with the variable of G1.P set: Last was the first field
\* processed and G1.P is 0 still
C24_Witness ==
    /\ Done /\ cfgType = Tree
    /\ err /= Nil /\ err[1].msg = "parsing" /\ err[1].field = "Last"
    /\ DOMAIN environ = {A, <<"E">>} /\ environ[A] = <<"1">> /\ environ[<<"E">>] = <<"x">>
    /\ Len(FieldLog) = 1 /\ FieldLog[1].field = <<"Last">>
    /\ Len(metaInfo) = 5 /\ metaInfo[2].fieldValue = <<"G1", "P">>
    /\ metaInfo[4].fieldValue = <<"G2", "S">> /\ metaInfo[5].fieldValue = <<"G1", "G3", "R">>
    /\ cfg.G1.P = 0

----------------------------------------------------------------------------
(* C25 *)

\* a is before b, or equal to it, in the byte-wise lexicographic order
LexLeq(a, b) ==
    \/ Len(a) <= Len(b) /\ \A i \in 1..Len(a) : a[i] = b[i]
    \/ \E k \in 1..Len(a) :
          /\ k <= Len(b)
          /\ \A i \in 1..(k - 1) : a[i] = b[i]
          /\ Ord(a[k]) < Ord(b[k])

\* the entries GetDescription renders for a struct type, as a set
EntriesOf(t) ==
    LET metas == readStructMetadata(t).metas
    IN  UNION { { elemDescription(metas[i], k) : k \in 1..Len(metas[i].envList) } :
                  i \in 1..Len(metas) }

Headers == { Nil, Some(<<"H", ":">>) }

----------------------------------------------------------------------------
(* C26 *)

BoolTokens ==
    { <<"1">>, <<"t">>, <<"T">>, <<"T","R","U","E">>, <<"t","r","u","e">>, <<"T","r","u","e">>,
      <<"0">>, <<"f">>, <<"F">>, <<"F","A","L","S","E">>, <<"f","a","l","s","e">>,
      <<"F","a","l","s","e">> }

\* a decimal numeral, with or without "-", that does not start with "0"
IsDecimal(str) ==
    LET body == IF str /= <<>> /\ str[1] = "-" THEN Tail(str) ELSE str
    IN  /\ body /= <<>> /\ body[1] /= "0"
        /\ \A i \in 1..Len(body) : body[i] \in Digits

RECURSIVE Magnitude(_)
\* the number a string of digits writes
Magnitude(body) ==
    IF body = <<>> THEN 0
    ELSE 10 * Magnitude(SubSeq(body, 1, Len(body) - 1)) + DigitVal(body[Len(body)])

\* the number a decimal numeral writes
NumberOf(str) == IF str[1] = "-" THEN 0 - Magnitude(Tail(str)) ELSE Magnitude(str)

\* the numbers of an integer type of 8 bits
InRange(t, n) == IF t.kind = "int" THEN -128 <= n /\ n <= 127 ELSE 0 <= n /\ n <= 255

\* a text is a good value for a boolean or 8 bit integer type
GoodText(t, text) ==
    IF t.kind = "bool" THEN text \in BoolTokens
    ELSE IsDecimal(text) /\ InRange(t, NumberOf(text))

\* C26: whenever coercion of a raw value into a field of a built-in shape
\* fails in a pass, the field holds exactly the value it held before.  It
\* fails for a boolean on any text that is no boolean token; for an 8 bit
\* integer on a decimal numeral outside the type's range and on any text
\* that is no numeral, and a numeral in range is stored as the number it
\* writes; for a sequence of integers if any piece is no good integer text.
C26_FailedCoercionKeepsValue ==
    \A i \in 1..Len(FieldLog) :
        LET e == FieldLog[i]
            m == metaInfo[i]
            t == m.fieldType
        IN  (e.what \in {"set", "fail"} /\ cfgType.name = "Scalars") =>
              LET raw == e.raw[1]
                  n   == Cardinality(CutsOf(raw, ",")) + 1
              IN  /\ e.what = "fail" => Now(m) = Before(m)
                  /\ t.kind = "bool" => (e.what = "set" <=> raw \in BoolTokens)
                  /\ (t.kind \in {"int", "uint"} /\ t.bits = 8) =>
                        /\ (IsDecimal(raw) \/ raw = <<"x">>) =>
                              (e.what = "set" <=> GoodText(t, raw))
                        /\ (e.what = "set" /\ IsDecimal(raw)) => Now(m) = NumberOf(raw)
                        /\ e.what = "set" => InRange(t, Now(m))
                  /\ (t.kind = "slice" /\ \A k \in 1..n : IsDecimal(PieceOf(raw, ",", k))) =>
                        (e.what = "set" <=> \A k \in 1..n : GoodText(t.elem[1], PieceOf(raw, ",", k)))
                  /\ (t.kind = "map" /\ \E k \in 1..n :
                          \/ ~HasColon(PieceOf(raw, ",", k))
                          \/ (t.elem[1].kind = "int" /\ IsDecimal(ValueText(PieceOf(raw, ",", k)))
                                /\ ~GoodText(t.elem[1], ValueText(PieceOf(raw, ",", k))))
                          \/ (t.key[1].kind = "int" /\ ~GoodText(t.key[1], KeyText(PieceOf(raw, ",", k))))
                          \/ (t.elem[1].kind = "bool" /\ ~GoodText(t.elem[1], ValueText(PieceOf(raw, ",", k)))))
                        => e.what = "fail"

\* a sequence of int8 that held 1, 2 went through a pass with the raw value
\* "1,128": the pass failed and the sequence holds 1, 2 still
C26_Witness ==
    /\ Done /\ err /= Nil /\ err[1].msg = "parsing"
    /\ cfgType = Scalars(SliceOf(TInt8))
    /\ A \in DOMAIN environ /\ environ[A] = <<"1", ",", "1", "2", "8">>
    /\ cfg1.Item = [nil |-> FALSE, elems |-> <<1, 2>>]
    /\ cfg.Item = [nil |-> FALSE, elems |-> <<1, 2>>]

----------------------------------------------------------------------------
(* C27 *)

\* the step adds an entry to the log of the field loop
LoggedStep == pc = "run" /\ Len(log') = Len(log) + 1

\* C27: every iteration of the field loop looks the field's variables up in
\* the environment as it is at that iteration, not as it was when the call
\* began: the raw value of a field taken from the environment is the value
\* the first set name of the field has at the step, and a field is given
\* its default or left alone only if none of its names is set at the step;
\* and another goroutine's Setenv or Unsetenv takes effect while the loop runs.
C27_NoSnapshot ==
    [][ /\ LoggedStep =>
             LET e == log'[Len(log')]
                 m == metaInfo[idx]
             IN  /\ (e.what \in {"set", "fail"} /\ e.src = "env") =>
                       \E k \in 1..Len(m.envList) :
                           /\ FirstPresent(m, k)
                           /\ e.raw = Some(environ[m.envList[k]])
                 /\ (e.what = "none" \/ (e.what \in {"set", "fail"} /\ e.src = "default")) =>
                       ~Present(m)
        /\ (pc = "run" /\ environ' /= environ) => (pc' = "run" /\ cfg' = cfg /\ log' = log)
      ]_vars

\* ReadConfig was called with A and B set to "1"; both were set to "2"
\* while the pass ran, and it returned a record with First 1 and Second 2
C27_Witness ==
    /\ Done /\ op = "ReadConfig" /\ err = Nil /\ fileArg /= Nil
    /\ fileArg[1].environ = (A :> <<"1">> @@ B :> <<"1">>)
    /\ environ = (A :> <<"2">> @@ B :> <<"2">>)
    /\ cfg0.First = 0 /\ cfg0.Second = 0
    /\ cfg.First = 1 /\ cfg.Second = 2

----------------------------------------------------------------------------
(* C28 *)

\* C28: whenever a pass processes a field whose first set source name is
\* set to the empty string, that empty string is the raw value that is
\* coerced, whatever later names hold and whether the field is required or
\* has a default: a string field becomes "", a sequence or mapping field
\* becomes empty and not nil, and for a number or boolean field the pass
\* fails with a coercion error and the field keeps its value.
C28_EmptyIsPresent ==
    \A i \in 1..Len(FieldLog) :
        LET e == FieldLog[i]
            m == metaInfo[i]
            t == m.fieldType
        IN  e.what /= "skip" =>
              \A k \in 1..Len(m.envList) :
                 (FirstPresent(m, k) /\ environ[m.envList[k]] = <<>>) =>
                    /\ e.what \in {"set", "fail"}
                    /\ e.src = "env" /\ e.raw = Some(<<>>)
                    /\ t.kind = "string" => e.what = "set" /\ Now(m) = <<>>
                    /\ t.kind = "slice" =>
                          e.what = "set" /\ Now(m) = [nil |-> FALSE, elems |-> <<>>]
                    /\ t.kind = "map" =>
                          e.what = "set" /\ Now(m) = [nil |-> FALSE, kv |-> <<>>]
                    /\ t.kind \in {"int", "uint", "bool"} =>
                          /\ e.what = "fail" /\ Now(m) = Before(m)
                          /\ err /= Nil /\ err[1].msg = "parsing"

\* a pass has succeeded on a required sequence field with A set to "" and
\* its alternate B to "1": the field is empty and not nil
C28_Witness ==
    /\ Done /\ err = Nil
    /\ cfgType = Blank(SliceOf(TInt8), Nil)
    /\ metaInfo[1].required /\ metaInfo[1].envList = <<A, B>>
    /\ DOMAIN environ = {A, B} /\ environ[A] = <<>> /\ environ[B] = <<"1">>
    /\ cfg1.Item = [nil |-> TRUE, elems |-> <<>>]
    /\ cfg.Item = [nil |-> FALSE, elems |-> <<>>]

----------------------------------------------------------------------------
(* C29 *)

RECURSIVE BuiltIn(_)
\* the type and every type inside it is a built-in shape: none implements
\* Setter, encoding.TextUnmarshaler or Updater
BuiltIn(t) ==
    /\ ~t.text /\ ~t.setter /\ t.updater = ""
    /\ \A i \in 1..Len(t.fields) : BuiltIn(t.fields[i].type)
    /\ t.elem /= Nil => BuiltIn(t.elem[1])
    /\ t.key /= Nil => BuiltIn(t.key[1])

\* C29: on a record of built-in shapes, a ReadEnv entered right after a
\* ReadEnv that returned without error, the environment as that one left it,
\* changes no field at any point and returns without error; and so does an
\* UpdateEnv entered right after a successful UpdateEnv.
C29_SecondPassChangesNothing ==
    (repeated /\ BuiltIn(cfgType)) => (cfg = cfg0 /\ err = Nil)

\* a second ReadEnv in a row has returned on a record whose sequence field
\* the first one filled from the variable A
C29_Witness ==
    /\ repeated /\ Done /\ op = "ReadEnv" /\ err = Nil
    /\ cfgType = Blank(SliceOf(TInt8), Some(<<"1">>))
    /\ A \in DOMAIN environ /\ environ[A] = <<"1">>
    /\ Len(FieldLog) = 1 /\ FieldLog[1].what = "set" /\ FieldLog[1].src = "env"
    /\ cfg.Item = [nil |-> FALSE, elems |-> <<1>>]
    /\ cfg0 = cfg

\* a second UpdateEnv in a row has returned on a record whose field the first
\* one filled from its default
C29_WitnessUpdate ==
    /\ repeated /\ Done /\ op = "UpdateEnv" /\ err = Nil
    /\ cfgType = Blank(TInt8, Some(<<"1">>))
    /\ DOMAIN environ = {}
    /\ Len(FieldLog) = 1 /\ FieldLog[1].what /= "skip"
    /\ cfg.Item = 1 /\ cfg0 = cfg

----------------------------------------------------------------------------
(* C30 *)

\* C30: in an UpdateEnv pass every field that is not marked updatable is
\* passed over whole: the loop neither looks its variables up nor checks that
\* it is required, the field keeps the value it had when the loop started
\* (no default, no coerced value), and an error the pass returns from its
\* field loop is never about such a field, whether the field is zero and
\* required or its variable holds text that does not coerce.
C30_NonUpdatableExempt ==
    op = "UpdateEnv" =>
        /\ \A i \in 1..Len(FieldLog) :
              ~metaInfo[i].updatable =>
                 /\ FieldLog[i].what = "skip"
                 /\ FieldLog[i].raw = Nil
                 /\ Now(metaInfo[i]) = Before(metaInfo[i])
        /\ (err /= Nil /\ Len(FieldLog) > 0) => metaInfo[Len(FieldLog)].updatable

\* UpdateEnv has returned without error on a record whose two fields are not
\* updatable: First is zero, has a default and its variable C holds "x";
\* Second is zero and required and its variable A is not set
C30_Witness ==
    /\ Done /\ op = "UpdateEnv" /\ err = Nil
    /\ cfgType = Flat(MkTag(Some(A), Nil, TRUE, FALSE), "")
    /\ Len(FieldLog) = 2
    /\ ~metaInfo[1].updatable /\ metaInfo[1].defValue = Some(<<"1">>)
    /\ ~metaInfo[2].updatable /\ metaInfo[2].required
    /\ C \in DOMAIN environ /\ environ[C] = <<"x">> /\ A \notin DOMAIN environ
    /\ cfg.First = 0 /\ cfg.Second = 0

====
